---- MODULE Spec2Model ----
(***************************************************************************)
(* A model of the catalog core of neodb: the search-result deduplication   *)
(* pass (catalog/search/models.py query_index), the fetch admission        *)
(* controller (get_fetch_lock, enqueue_fetch, the fetch view) and the      *)
(* resource resolution engine (catalog/common/sites.py).                   *)
(*                                                                         *)
(* The three parts share no state in the source, so each has its own       *)
(* specification (SpecQuery, SpecFetch, SpecResolve); a specification      *)
(* leaves the variables of the other parts at their initial value.         *)
(***************************************************************************)
EXTENDS Integers, Sequences, FiniteSets, TLC

VARIABLES
    qpc,        \* "idle", or "returned" once query_index has returned
    qin,        \* arguments and index response of the last query_index call
    qout,       \* what the last query_index call returned and did
    dupCache    \* the "search_<categories>_<keywords>" cache entry (a set of urls)

qvars == <<qpc, qin, qout, dupCache>>

VARIABLES
    reqs,       \* the fetch requests being served: position and locals of each
    actorLock,  \* cache keys "_fetch_lock:<user id>" / "_fetch_lock" that are set
    urlLock,    \* cache keys "_fetch_lock:<url>" that are set
    jobs,       \* status of the rq job "fetch_<md5(url)>", per url
    enqCount,   \* observation: enqueue calls made by non-refetch requests, per url
    overlapped, \* observation: two non-refetch requests for the url were in progress at once
    expired,    \* observation: the per-url lock of the url has expired at least once
    refetched   \* observation: a refetch request was made for the url

fvars == <<reqs, actorLock, urlLock, jobs, enqCount, overlapped, expired, refetched>>

VARIABLES
    world,      \* what the sites serve: for every page, what scrape() yields
    res,        \* the ExternalResource table: for every page its row
    itemdb,     \* the Item table; the primary key of an Item is its index
    crawlq,     \* the jobs waiting on the rq queue "crawl" (resource keys)
    rpc,        \* "idle"; "returned" / "repeated" / "recrawled" once a call has returned
    last,       \* the last call: arguments, return value, what it did
    nops,       \* the calls, crawl jobs and merges run so far
    workers     \* the workers inside match_or_create_item_for_resource

rvars == <<world, res, itemdb, crawlq, rpc, last, nops, workers>>

VARIABLES
    fjob,       \* the rq job "fetch_<md5(url)>" of one url: arguments, status, return value
    poll        \* the chain of fetch_refresh polls of a client: last response, retry counter

jvars == <<fjob, poll>>

VARIABLES
    registry,   \* SiteManager.registry: the adapters in the order of their registration
    redirCache, \* the cache entries "_redir_<md5(url)>", per url
    sitecall    \* the last call of the registry: arguments, outcome

svars == <<registry, redirCache, sitecall>>

vars == <<qvars, fvars, rvars, jvars, svars>>

None == "none"

(***************************************************************************)
(* Part 1.  query_index                                                    *)
(***************************************************************************)

\* bounds of the model
MaxResults == 4      \* longest index response explored

\* program constants of query_index's argument check
MinPage == 1
MaxPage == 99
MinKeywordLen == 2
MaxKeywordLen == 100

\* argument values explored: both sides of every comparison of lines 78-82
Pages == {MinPage - 1, MinPage, MaxPage, MaxPage + 1}
KeywordLens == {0, MinKeywordLen - 1, MinKeywordLen, MaxKeywordLen, MaxKeywordLen + 1}

\* The catalog behind the index: items by primary key.  An Edition has an
\* "isbn" attribute and get_work(); a TVShow and a TVSeason have "imdb_code";
\* a TVSeason has "show".  An attribute that is empty is None.  Season 8
\* carries the imdb_code of its show.
IndexCatalog == 1..8

ItemClass(i) ==
    CASE i \in {1, 2, 3, 4} -> "Edition"
      [] i = 5 -> "TVShow"
      [] OTHER -> "TVSeason"

\* isbn / imdb_code / barcode of the item, None when the attribute is empty
ItemCode(i) ==
    CASE i \in {1, 3} -> "k1"
      [] i = 2 -> "k2"
      [] i \in {5, 8} -> "k3"
      [] i = 6 -> "k4"
      [] OTHER -> None

\* id of the Work returned by get_work(), None when there is none
ItemWork(i) ==
    CASE i \in {2, 3, 4} -> "w1"
      [] OTHER -> None

\* TVSeason.show
ItemShow(i) ==
    CASE i \in {6, 7, 8} -> 5
      [] OTHER -> 0

\* urls of i.external_resources.all()
ItemUrls(i) == IF i = 5 THEN {"u5"} ELSE {}

Range(s) == {s[n] : n \in DOMAIN s}

\* sequences of distinct catalog items of length at most n
RECURSIVE DistinctSeqs(_)
DistinctSeqs(n) ==
    IF n = 0 THEN {<<>>}
    ELSE LET shorter == DistinctSeqs(n - 1)
         IN  shorter \cup
             UNION {{Append(s, i) : i \in IndexCatalog \ Range(s)} :
                    s \in {t \in shorter : Len(t) = n - 1}}

\* position of the first occurrence of x in s (0 when absent)
IndexOf(s, x) ==
    IF x \in Range(s) THEN CHOOSE n \in DOMAIN s : s[n] = x /\ \A m \in 1..(n-1) : s[m] # x
    ELSE 0

\* list.remove(x): drop the first occurrence
Remove(s, x) ==
    LET n == IndexOf(s, x)
    IN  IF n = 0 THEN s
        ELSE [m \in 1..(Len(s) - 1) |-> IF m < n THEN s[m] ELSE s[m + 1]]

\* the argument check without its upper page bound
InvalidQuery_NoPageCap(page, kwlen) ==
    \/ page < MinPage
    \/ kwlen < MinKeywordLen
    \/ kwlen > MaxKeywordLen

\* lines 78-83: the argument check
InvalidQuery(page, kwlen) ==
    \/ page < MinPage
    \/ page > MaxPage
    \/ kwlen < MinKeywordLen
    \/ kwlen > MaxKeywordLen

\* lines 102-107: my_key, in dict insertion order (code first, then work id)
MyKey(i) ==
    (IF ItemCode(i) # None THEN <<ItemCode(i)>> ELSE <<>>) \o
    (IF ItemClass(i) = "Edition" /\ ItemWork(i) # None THEN <<ItemWork(i)>> ELSE <<>>)

\* lines 109-113: the item registered for the first key of my_key found in keys
DupBy(keys, my_key) ==
    LET hits == {n \in DOMAIN my_key : my_key[n] \in DOMAIN keys}
    IN  IF hits = {} THEN 0
        ELSE keys[my_key[CHOOSE n \in hits : \A m \in hits : n <= m]]

\* keys, items, urls: the locals of query_index; dupe_to: the attribute set on
\* the items.  claim records, for stating properties, the item each key was
\* registered for first (keys may later be re-assigned, claim never is).
EmptyAcc == [keys |-> <<>>, items |-> <<>>, dupe_to |-> [i \in IndexCatalog |-> <<>>],
             urls |-> {}, claim |-> <<>>]

\* lines 115-116 and 119: register every key of my_key for item x
Register(keys, claimed, x) ==
    [k \in DOMAIN keys \cup claimed |-> IF k \in claimed THEN x ELSE keys[k]]

FirstClaim(claim, claimed, x) ==
    [k \in DOMAIN claim \cup claimed |-> IF k \in DOMAIN claim THEN claim[k] ELSE x]

\* the first loop with lines 115-116 left out: a folded item's keys are not
\* registered for the item it was folded into
DedupStep_KeysOfDupeLost(acc, i) ==
    LET my_key == MyKey(i)
        dup_by == DupBy(acc.keys, my_key)
        claimed == Range(my_key)
        withUrls == [acc EXCEPT !.urls = @ \cup ItemUrls(i)]
    IN  IF my_key = <<>> THEN [withUrls EXCEPT !.items = Append(@, i)]
        ELSE IF dup_by # 0
        THEN [withUrls EXCEPT !.dupe_to[dup_by] = Append(@, i)]
        ELSE [withUrls EXCEPT
                !.keys = Register(acc.keys, claimed, i),
                !.claim = FirstClaim(acc.claim, claimed, i),
                !.items = Append(@, i)]

\* lines 101-124: one iteration of the first loop
DedupStep(acc, i) ==
    LET my_key == MyKey(i)
        dup_by == DupBy(acc.keys, my_key)
        claimed == Range(my_key)
        withUrls == [acc EXCEPT !.urls = @ \cup ItemUrls(i)]
    IN  IF my_key = <<>> THEN [withUrls EXCEPT !.items = Append(@, i)]
        ELSE IF dup_by # 0
        THEN [withUrls EXCEPT
                !.keys = Register(acc.keys, claimed, dup_by),
                !.claim = FirstClaim(acc.claim, claimed, dup_by),
                !.dupe_to[dup_by] = Append(@, i)]
        ELSE [withUrls EXCEPT
                !.keys = Register(acc.keys, claimed, i),
                !.claim = FirstClaim(acc.claim, claimed, i),
                !.items = Append(@, i)]

RECURSIVE FirstPass(_, _)
FirstPass(acc, r) ==
    IF r = <<>> THEN acc ELSE FirstPass(DedupStep(acc, Head(r)), Tail(r))

\* the second loop the other way round: the season is removed and attached
\* to its show
SeasonStep_SeasonDemoted(acc, season) ==
    IF ItemShow(season) \in Range(acc.items)
    THEN [acc EXCEPT !.dupe_to[ItemShow(season)] = Append(@, season),
                     !.items = Remove(@, season)]
    ELSE acc

\* the second loop without line 129: the show is removed from the list and
\* attached to nothing
SeasonStep_ShowDropped(acc, season) ==
    IF ItemShow(season) \in Range(acc.items)
    THEN [acc EXCEPT !.items = Remove(@, ItemShow(season))]
    ELSE acc

\* lines 127-130: one iteration of the second loop
SeasonStep(acc, season) ==
    IF ItemShow(season) \in Range(acc.items)
    THEN [acc EXCEPT !.dupe_to[season] = Append(@, ItemShow(season)),
                     !.items = Remove(@, ItemShow(season))]
    ELSE acc

RECURSIVE SecondPass(_, _)
SecondPass(acc, seasons) ==
    IF seasons = <<>> THEN acc ELSE SecondPass(SeasonStep(acc, Head(seasons)), Tail(seasons))

\* line 126: seasons = [i for i in items if i.__class__ == TVSeason]
RECURSIVE Seasons(_)
Seasons(items) ==
    IF items = <<>> THEN <<>>
    ELSE (IF ItemClass(Head(items)) = "TVSeason" THEN <<Head(items)>> ELSE <<>>)
         \o Seasons(Tail(items))

\* items, pages, total: the returned tuple; queried: index.search was called;
\* first: the item list after the first loop; dupe_to: the attribute on the items
EmptyResult == [items |-> <<>>, pages |-> 0, total |-> 0, queried |-> FALSE,
                first |-> <<>>, dupe_to |-> [i \in IndexCatalog |-> <<>>], urls |-> {},
                claim |-> <<>>]

\* query_index(keywords, page): parsed is the truth value of the
\* CatalogQueryParser object, r the items the index returns for the query
query_index(page, kwlen, parsed, r) ==
    IF InvalidQuery(page, kwlen) THEN EmptyResult
    ELSE IF ~parsed THEN EmptyResult
    ELSE LET first == FirstPass(EmptyAcc, r)
             second == SecondPass(first, Seasons(first.items))
         IN  [items |-> second.items,
              pages |-> IF r = <<>> THEN 0 ELSE 1,
              total |-> Len(r),
              queried |-> TRUE,
              first |-> first.items,
              dupe_to |-> second.dupe_to,
              urls |-> second.urls,
              claim |-> first.claim]

\* the index responses explored
IndexResults == DistinctSeqs(MaxResults)

NoQuery == [page |-> MinPage, kwlen |-> 0, parsed |-> FALSE, r |-> <<>>,
            prepare_external |-> FALSE]

InitQueryPart ==
    /\ qpc = "idle"
    /\ qin = NoQuery
    /\ qout = EmptyResult
    /\ dupCache = {}

\* one call of query_index, lines 70-138
QueryIndex ==
    /\ qpc = "idle"
    /\ \E page \in Pages, kwlen \in KeywordLens, parsed \in BOOLEAN,
          r \in IndexResults, prepare_external \in BOOLEAN :
            LET out == query_index(page, kwlen, parsed, r)
            IN  /\ qin' = [page |-> page, kwlen |-> kwlen, parsed |-> parsed, r |-> r,
                           prepare_external |-> prepare_external]
                /\ qout' = out
                /\ dupCache' = IF out.queried /\ prepare_external
                               THEN dupCache \cup out.urls ELSE dupCache
    /\ qpc' = "returned"
    /\ UNCHANGED <<fvars, rvars, jvars, svars>>

\* the caller has consumed the result; the next request may call query_index
QueryDone ==
    /\ qpc = "returned"
    /\ qpc' = "idle"
    /\ qin' = NoQuery
    /\ qout' = EmptyResult
    /\ UNCHANGED <<dupCache, fvars, rvars, jvars, svars>>

\* the 300 s timeout of the cache entry
DupCacheExpire ==
    /\ qpc = "idle"
    /\ dupCache # {}
    /\ dupCache' = {}
    /\ UNCHANGED <<qpc, qin, qout, fvars, rvars, jvars, svars>>

(***************************************************************************)
(* Part 2.  Fetch admission: the fetch view, get_fetch_lock, enqueue_fetch *)
(***************************************************************************)

\* bounds of the model
NRequests == 2       \* fetch requests served in one behaviour

Requests == 1..NRequests
Urls == {"a", "b"}
\* request.user: two authenticated users and the anonymous user
Users == {"u1", "u2", "anon"}

is_authenticated(user) == user # "anon"

\* lines 142-147 with the key of line 146 used for every user
ActorKey_Shared(user) == <<"_fetch_lock">>

\* lines 142-147: the cache key of the per-actor lock
ActorKey(user) == IF is_authenticated(user) THEN <<"_fetch_lock", user>> ELSE <<"_fetch_lock">>

ActorKeys == {ActorKey(u) : u \in Users}

\* line 161: job_id = "fetch_" + md5(url); distinct urls give distinct ids
JobId(url) == <<"fetch_", url>>

Idle == [pc |-> "new", user |-> None, url |-> None, refetch |-> FALSE, ret |-> None]

\* the request has entered the fetch view and not left it
InFlight(r) == reqs[r].pc \notin {"new", "done"}

\* the view returns; its locals are gone
Leave(r, ret) == [reqs EXCEPT ![r] = [Idle EXCEPT !.pc = "done", !.ret = ret]]

Goto(r, pc) == [reqs EXCEPT ![r].pc = pc]

InitFetchPart ==
    /\ reqs = [r \in Requests |-> Idle]
    /\ actorLock = {}
    /\ urlLock = {}
    /\ jobs = [u \in Urls |-> "none"]
    /\ enqCount = [u \in Urls |-> 0]
    /\ overlapped = [u \in Urls |-> FALSE]
    /\ expired = [u \in Urls |-> FALSE]
    /\ refetched = [u \in Urls |-> FALSE]

\* views.py lines 55-66 with the test of is_refetch left out of line 66: a
\* refetch goes through get_fetch_lock like any other request
FetchView_RefetchLocked(r) ==
    /\ reqs[r].pc = "new"
    /\ \A q \in Requests : q < r => reqs[q].pc # "new"
    /\ \E user \in Users, url \in Urls, is_refetch \in BOOLEAN, item \in BOOLEAN :
        /\ is_refetch => is_authenticated(user)
        /\ IF item /\ ~is_refetch
           THEN /\ reqs' = Leave(r, "redirect")
                /\ UNCHANGED <<qvars, rvars, jvars, svars, overlapped, refetched>>
           ELSE /\ reqs' = [reqs EXCEPT ![r] =
                              [pc |-> "actorGet",
                               user |-> user, url |-> url, refetch |-> is_refetch,
                               ret |-> None]]
                /\ overlapped' = [overlapped EXCEPT ![url] =
                                    @ \/ (~is_refetch /\ \E q \in Requests :
                                            InFlight(q) /\ reqs[q].url = url
                                            /\ ~reqs[q].refetch)]
                /\ refetched' = [refetched EXCEPT ![url] = @ \/ is_refetch]
    /\ UNCHANGED <<qvars, rvars, jvars, svars, actorLock, urlLock, jobs, enqCount, expired>>

\* views.py lines 55-66: a request enters fetch(request, url, site, is_refetch).
\* item is the outcome of site.get_item(); refetch (views.py 188-205) is
\* login_required.  Requests are numbered in the order they arrive.
FetchView(r) ==
    /\ reqs[r].pc = "new"
    /\ \A q \in Requests : q < r => reqs[q].pc # "new"
    /\ \E user \in Users, url \in Urls, is_refetch \in BOOLEAN, item \in BOOLEAN :
        /\ is_refetch => is_authenticated(user)
        /\ IF item /\ ~is_refetch
           THEN /\ reqs' = Leave(r, "redirect")
                /\ UNCHANGED <<qvars, rvars, jvars, svars, overlapped, refetched>>
           ELSE /\ reqs' = [reqs EXCEPT ![r] =
                              [pc |-> IF is_refetch THEN "jobFetch" ELSE "actorGet",
                               user |-> user, url |-> url, refetch |-> is_refetch,
                               ret |-> None]]
                /\ overlapped' = [overlapped EXCEPT ![url] =
                                    @ \/ (~is_refetch /\ \E q \in Requests :
                                            InFlight(q) /\ reqs[q].url = url
                                            /\ ~reqs[q].refetch)]
                /\ refetched' = [refetched EXCEPT ![url] = @ \/ is_refetch]
    /\ UNCHANGED <<qvars, rvars, jvars, svars, actorLock, urlLock, jobs, enqCount, expired>>

\* the per-url gate ignored: the lock is never found
UrlLocked_Never(url) == FALSE

\* line 154: cache.get("_fetch_lock:<url>")
UrlLocked(url) == url \in urlLock

\* the per-actor gate ignored: the lock is never found
ActorLocked_Never(user) == FALSE

\* line 148: cache.get(_fetch_lock_key)
ActorLocked(user) == ActorKey(user) \in actorLock

\* models.py lines 148-149
ActorLockGet(r) ==
    /\ reqs[r].pc = "actorGet"
    /\ reqs' = IF ActorLocked(reqs[r].user) THEN Leave(r, "refused") ELSE Goto(r, "actorSet")
    /\ UNCHANGED <<qvars, rvars, jvars, svars, actorLock, urlLock, jobs, enqCount, overlapped, expired, refetched>>

\* models.py line 150 left out: the call goes on to the per-url gate without
\* writing the per-actor lock
ActorLockSet_NoWrite(r) ==
    /\ reqs[r].pc = "actorSet"
    /\ reqs' = Goto(r, "urlGet")
    /\ UNCHANGED <<qvars, rvars, jvars, svars, actorLock, urlLock, jobs, enqCount, overlapped, expired, refetched>>

\* models.py line 150
ActorLockSet(r) ==
    /\ reqs[r].pc = "actorSet"
    /\ actorLock' = actorLock \cup {ActorKey(reqs[r].user)}
    /\ reqs' = Goto(r, "urlGet")
    /\ UNCHANGED <<qvars, rvars, jvars, svars, urlLock, jobs, enqCount, overlapped, expired, refetched>>

\* models.py lines 154-155
UrlLockGet(r) ==
    /\ reqs[r].pc = "urlGet"
    /\ reqs' = IF UrlLocked(reqs[r].url) THEN Leave(r, "refused") ELSE Goto(r, "urlSet")
    /\ UNCHANGED <<qvars, rvars, jvars, svars, actorLock, urlLock, jobs, enqCount, overlapped, expired, refetched>>

\* models.py lines 156-157: get_fetch_lock returns True
UrlLockSet(r) ==
    /\ reqs[r].pc = "urlSet"
    /\ urlLock' = urlLock \cup {reqs[r].url}
    /\ reqs' = Goto(r, "jobFetch")
    /\ UNCHANGED <<qvars, rvars, jvars, svars, actorLock, jobs, enqCount, overlapped, expired, refetched>>

\* line 165 with a started job not counted as in progress
InProgress_QueuedOnly(url) == jobs[url] = "queued"

\* line 165: in_progress
InProgress(url) == jobs[url] \in {"queued", "started"}

\* models.py lines 161-168: Job.fetch and job.get_status()
JobFetch(r) ==
    /\ reqs[r].pc = "jobFetch"
    /\ reqs' = IF InProgress(reqs[r].url) THEN Leave(r, "job") ELSE Goto(r, "enqueue")
    /\ UNCHANGED <<qvars, rvars, jvars, svars, actorLock, urlLock, jobs, enqCount, overlapped, expired, refetched>>

\* models.py lines 169-173: the job is enqueued under its id
Enqueue(r) ==
    /\ reqs[r].pc = "enqueue"
    /\ jobs' = [jobs EXCEPT ![reqs[r].url] = "queued"]
    /\ enqCount' = [enqCount EXCEPT ![reqs[r].url] =
                      IF reqs[r].refetch THEN @ ELSE @ + 1]
    /\ reqs' = Leave(r, "job")
    /\ UNCHANGED <<qvars, rvars, jvars, svars, actorLock, urlLock, overlapped, expired, refetched>>

\* the timeout of a per-actor lock (lines 144, 147) runs out.  The timeout is
\* at least a second: it does not run out while the call that set the lock
\* is still in get_fetch_lock (lines 152-157)
ActorLockExpire(k) ==
    /\ k \in actorLock
    /\ \A r \in Requests : reqs[r].pc \in {"urlGet", "urlSet"} => ActorKey(reqs[r].user) # k
    /\ actorLock' = actorLock \ {k}
    /\ UNCHANGED <<qvars, rvars, jvars, svars, reqs, urlLock, jobs, enqCount, overlapped, expired, refetched>>

\* the timeout of a per-url lock (line 153) runs out
UrlLockExpire(u) ==
    /\ u \in urlLock
    /\ urlLock' = urlLock \ {u}
    /\ expired' = [expired EXCEPT ![u] = TRUE]
    /\ UNCHANGED <<qvars, rvars, jvars, svars, reqs, actorLock, jobs, enqCount, overlapped, refetched>>

\* an rq worker of the "fetch" queue takes the job
WorkerStart(u) ==
    /\ jobs[u] = "queued"
    /\ jobs' = [jobs EXCEPT ![u] = "started"]
    /\ UNCHANGED <<qvars, rvars, jvars, svars, reqs, actorLock, urlLock, enqCount, overlapped, expired, refetched>>

\* _fetch_task returns (lines 176-201), or the worker loses the job
WorkerFinish(u) ==
    /\ jobs[u] = "started"
    /\ \E status \in {"finished", "failed"} : jobs' = [jobs EXCEPT ![u] = status]
    /\ UNCHANGED <<qvars, rvars, jvars, svars, reqs, actorLock, urlLock, enqCount, overlapped, expired, refetched>>

(***************************************************************************)
(* Part 3.  Resource resolution (catalog/common/sites.py)                  *)
(***************************************************************************)

\* bounds of the model
MaxItems == 3        \* Item rows that can exist
MaxCrawl == 2        \* jobs waiting on the "crawl" queue
MaxOps == 4          \* calls, crawl jobs and merges of one behaviour

\* the pages the sites serve; every page has an adapter, url "X" has none
ResIds == {"A", "B", "C"}
NoSiteUrl == "X"

\* IdType values: "ISBN" is in IdealIdTypes, "site" is the ID_TYPE of the
\* adapters, "unreg" is bound to no adapter
IdealIdTypes == {"ISBN"}

\* a link descriptor of related_resources / prematched_resources / required_resources
Desc(url, t, v, content) == [url |-> url, id_type |-> t, id_value |-> v, content |-> content]

NoLinks == [prematched |-> <<>>, related |-> <<>>, required |-> <<>>]

\* what scrape() of a page yields.  scrape: "full" (metadata), "empty" (no
\* metadata), "error" (raises); model: the Item subtype of
\* get_item_model(DEFAULT_MODEL), None if undetermined; isbn: the ISBN among
\* the scraped lookup_ids, None if there is none; links: the link lists;
\* valid: an Item built from the scraped metadata has a public representation
\* (ap_object) that passes schema validation
Page(scrape, model, isbn, links) ==
    [scrape |-> scrape, model |-> model, isbn |-> isbn,
     prematched |-> links.prematched, related |-> links.related,
     required |-> links.required, valid |-> TRUE]

\* a page whose metadata yields a representation that fails validation
Malformed(page) == [page EXCEPT !.valid = FALSE]

PlainPage == Page("full", "Edition", None, NoLinks)

\* the worlds explored: every page A next to a plain page B with an ISBN,
\* every page B next to a plain page A, and a malformed or failing page B,
\* or one with links of its own, next to a page A that links to it; page C
\* is plain
Worlds ==
    LET ByUrl(u) == Desc(u, None, None, None)
        ById(r) == Desc(None, "site", r, None)
        WithContent(u) == Desc(u, None, None, "pre")
        LinksOfA ==
            { [NoLinks EXCEPT !.prematched = <<ByUrl("B")>>],
              [NoLinks EXCEPT !.prematched = <<ById("C"), ByUrl("B")>>],
              [NoLinks EXCEPT !.related = <<ByUrl("B")>>],
              [NoLinks EXCEPT !.related = <<ById("B")>>, !.prematched = <<ByUrl("C")>>],
              [NoLinks EXCEPT !.required = <<ByUrl("B")>>],
              [NoLinks EXCEPT !.required = <<ByUrl("B")>>, !.prematched = <<ByUrl("B")>>] }
        LinksOfB ==
            { [NoLinks EXCEPT !.related = <<ByUrl("A")>>],
              [NoLinks EXCEPT !.required = <<ByUrl("A")>>] }
        PagesA ==
            {Page("full", "Edition", None, l) : l \in LinksOfA}
            \cup {Page("full", "Edition", "i1", l) :
                    l \in {NoLinks,
                           [NoLinks EXCEPT !.required = <<ByUrl(NoSiteUrl), WithContent("B"),
                                                          ById("C"), ByUrl("C")>>]}}
            \cup {Page(s, "Edition", "i1", NoLinks) : s \in {"empty", "error"}}
            \cup {Page("full", None, "i1", NoLinks)}
        PagesB ==
            {Page("full", "Edition", "i1", l) : l \in LinksOfB}
            \cup {Page("error", "Edition", "i1", NoLinks)}
        World(a, b) == [r \in ResIds |-> IF r = "A" THEN a ELSE IF r = "B" THEN b ELSE PlainPage]
    IN  {World(a, Page("full", "Edition", "i1", NoLinks)) : a \in PagesA}
        \cup {World(PlainPage, b) : b \in PagesB}
        \cup {World(Malformed(Page("full", "Edition", "i1", NoLinks)),
                    Page("full", "Edition", "i1", NoLinks)),
              World(Page("full", "Edition", None, [NoLinks EXCEPT !.required = <<ByUrl("B")>>]),
                    Malformed(Page("full", "Edition", "i1", NoLinks))),
              World(Page("full", "Edition", None,
                         [NoLinks EXCEPT !.related = <<ByUrl("B"), ById("C")>>]),
                    Page("error", "Edition", "i1", NoLinks)),
              World(Page("full", "Edition", None, [NoLinks EXCEPT !.required = <<ByUrl("B")>>]),
                    Page("full", "Edition", "i1",
                         [NoLinks EXCEPT !.related = <<ByUrl("A")>>,
                                         !.required = <<ByUrl("C")>>])),
              World(Malformed(Page("full", "Edition", None,
                                   [NoLinks EXCEPT !.related = <<ByUrl("B")>>])),
                    Page("full", "Edition", "i1", NoLinks)),
              World(Page("full", None, "i1", [NoLinks EXCEPT !.prematched = <<ByUrl("B")>>]),
                    Page("full", "Edition", "i1", NoLinks)),
              World(Page("full", "Edition", None,
                         [NoLinks EXCEPT !.related = <<Desc("B", "site", "C", None)>>,
                                         !.prematched = <<Desc("B", "unreg", "x", None)>>]),
                    Page("full", "Edition", "i1", NoLinks)),
              World(Page("full", "Edition", None,
                         [NoLinks EXCEPT !.prematched = <<Desc("B", "site", "C", None),
                                                          ById("C")>>]),
                    Page("full", "Edition", "i1", NoLinks)),
              World(Page("full", "Edition", None, [NoLinks EXCEPT !.related = <<ByUrl("B")>>]),
                    Page("full", "Edition", "i1", [NoLinks EXCEPT !.related = <<ByUrl("A")>>])),
              World(Page("full", "Edition", None,
                         [NoLinks EXCEPT !.related = <<ByUrl("B"), ByUrl("C")>>]),
                    Page("full", "Edition", "i1",
                         [NoLinks EXCEPT !.prematched = <<ByUrl("C")>>]))}

\* the state a call works on: the ExternalResource rows, the Item rows, the
\* "crawl" queue, the events of the call so far, and whether it has raised
Ctx == [res |-> res, items |-> itemdb, crawlq |-> crawlq, log |-> <<>>, exc |-> FALSE]

NoId == <<None, None>>

\* an event of a call: what was done (e), for which resource (r), to which
\* Item (i).  The events of a match also tell the candidate id that matched
\* (k), the primary id of the Item as it was found (was), and the primary id
\* (now) and merged_to_item (to) of the Item in the table when it is returned
Ev(c, e, r, i) ==
    [c EXCEPT !.log = Append(@, [e |-> e, r |-> r, i |-> i, k |-> NoId, was |-> NoId,
                                 now |-> NoId, to |-> 0])]

PrimaryId(its, i) == <<its[i].ptype, its[i].pvalue>>

EvMatch(c, e, r, i, k, was) ==
    [c EXCEPT !.log = Append(@, [e |-> e, r |-> r, i |-> i, k |-> k, was |-> was,
                                 now |-> PrimaryId(c.items, i),
                                 to |-> c.items[i].merged_to])]

NoRow == [saved |-> FALSE, content |-> "none", item |-> 0]

\* lines 90-101: the stored row of the page, else a new unsaved ExternalResource
get_resource(c, r) ==
    IF c.res[r].saved THEN [content |-> c.res[r].content, item |-> c.res[r].item]
    ELSE [content |-> "none", item |-> 0]

\* ExternalResource.ready: the metadata has been populated by a scrape
ready(p) == p.content # "none"

\* the link lists are part of the scraped metadata; preloaded content has none
prematched_resources(r, p) == IF p.content = "full" THEN world[r].prematched ELSE <<>>
related_resources(r, p) == IF p.content = "full" THEN world[r].related ELSE <<>>
required_resources(r, p) == IF p.content = "full" THEN world[r].required ELSE <<>>

\* (id_type, id_value) of the resource
OwnId(r) == <<"site", r>>

\* ExternalResource.get_all_lookup_ids: the scraped lookup ids and the own id
get_all_lookup_ids(r, p) ==
    IF p.content = "full" /\ world[r].isbn # None
    THEN << <<"ISBN", world[r].isbn>>, OwnId(r) >>
    ELSE << OwnId(r) >>

\* Item.get_best_lookup_id: an ideal id type is preferred, then the first id
get_best_lookup_id(ids) ==
    LET ideal == {n \in DOMAIN ids : ids[n][1] \in IdealIdTypes}
    IN  IF ideal = {} THEN ids[1]
        ELSE ids[CHOOSE n \in ideal : \A m \in ideal : n <= m]

\* ExternalResource.get_lookup_ids: the candidates in priority order, the
\* best id first
get_lookup_ids(r, p) ==
    LET all == get_all_lookup_ids(r, p)
    IN  <<get_best_lookup_id(all)>> \o SelectSeq(all, LAMBDA x : x # get_best_lookup_id(all))

\* ExternalResource.get_item_model(DEFAULT_MODEL)
get_item_model(r) == world[r].model

\* model.objects.filter(primary_lookup_id_type=t, primary_lookup_id_value=v).first():
\* the lowest primary key, 0 for None
FindItem(its, model, id) ==
    LET found == {i \in DOMAIN its : /\ its[i].model = model
                                     /\ its[i].ptype = id[1]
                                     /\ its[i].pvalue = id[2]}
    IN  IF found = {} THEN 0 ELSE CHOOSE i \in found : \A j \in found : i <= j

\* ExternalResource.objects.filter(url=url).first()
ResourceByUrl(c, url) == IF url \in ResIds /\ c.res[url].saved THEN url ELSE None

\* ExternalResource.objects.filter(id_type=t, id_value=v).first()
ResourceById(c, t, v) == IF t = "site" /\ v \in ResIds /\ c.res[v].saved THEN v ELSE None

\* lines 139-150 with the id pair looked up before the url
MatchedResource_IdFirst(c, w) ==
    IF w.id_type # None /\ w.id_value # None /\ ResourceById(c, w.id_type, w.id_value) # None
    THEN ResourceById(c, w.id_type, w.id_value)
    ELSE IF w.url # None THEN ResourceByUrl(c, w.url)
    ELSE None

\* lines 139-150: the stored resource a prematched descriptor names
MatchedResource(c, w) ==
    IF w.url # None THEN ResourceByUrl(c, w.url)
    ELSE IF w.id_type # None /\ w.id_value # None
    THEN ResourceById(c, w.id_type, w.id_value)
    ELSE None

\* lines 142-143, 151-152: the Item of the matched resource, 0 if none
ItemOf(c, mr) == IF mr # None THEN c.res[mr].item ELSE 0

\* lines 138-152 with the prematched descriptors ignored
MatchPrematched_None(c, links) == 0

\* lines 138-152: the Item of the first prematched descriptor whose resource
\* exists and owns one (0 when there is none)
RECURSIVE MatchPrematched(_, _)
MatchPrematched(c, links) ==
    IF links = <<>> THEN 0
    ELSE IF ItemOf(c, MatchedResource(c, Head(links))) # 0
    THEN ItemOf(c, MatchedResource(c, Head(links)))
    ELSE MatchPrematched(c, Tail(links))

\* lines 176-177: one step along merged_to_item
FollowMerge(its, m) == IF m # 0 /\ its[m].merged_to # 0 THEN its[m].merged_to ELSE m

\* lines 168-175: the Item with the candidate id, else the Item with the
\* resource's own id
FindByIdOrOwn(its, model, id, own) ==
    IF FindItem(its, model, id) # 0 THEN FindItem(its, model, id)
    ELSE FindItem(its, model, own)

\* lines 178-182 with the upgrade never taken
NeedsUpgrade_Never(its, m, t) == FALSE

\* lines 178-182 with the tests of the id types left out: the candidate
\* always becomes the primary id
NeedsUpgrade_Always(its, m, t) == m # 0

\* lines 178-182
NeedsUpgrade(its, m, t) ==
    m # 0 /\ its[m].ptype \notin IdealIdTypes /\ t \in IdealIdTypes

\* lines 183-187: the upgrade and save of the matched Item, and the return
Upgraded(c, r, id, matched) ==
    IF NeedsUpgrade(c.items, matched, id[1])
    THEN [c |-> Ev([c EXCEPT !.items[matched].ptype = id[1],
                             !.items[matched].pvalue = id[2]],
                   "save_item", r, matched),
          item |-> matched, via |-> id, was |-> PrimaryId(c.items, matched)]
    ELSE [c |-> c, item |-> matched, via |-> id, was |-> PrimaryId(c.items, matched)]

\* lines 157-187: the loop over the lookup-id candidates
RECURSIVE MatchByIds(_, _, _, _)

\* lines 176-187 for one candidate: matched is the Item found for it
MatchCandidate(c, r, model, ids, matched) ==
    IF matched = 0 THEN MatchByIds(c, r, model, Tail(ids))
    ELSE Upgraded(c, r, Head(ids), matched)

MatchByIds(c, r, model, ids) ==
    IF ids = <<>> THEN [c |-> c, item |-> 0, via |-> NoId, was |-> NoId]
    ELSE MatchCandidate(c, r, model, ids,
                        FollowMerge(c.items, FindByIdOrOwn(c.items, model, Head(ids), OwnId(r))))

\* line 187: the Item matched by a lookup id is returned
ByLookup(m, r) ==
    IF m.item # 0
    THEN [c |-> EvMatch(m.c, "matched", r, m.item, m.via, m.was), item |-> m.item]
    ELSE [c |-> m.c, item |-> 0]

\* lines 143, 152-156: the prematched Item (pm) is returned, else the lookup
ByPrematch(c, r, p, pm) ==
    IF pm # 0
    THEN [c |-> EvMatch(c, "prematched", r, pm, NoId, PrimaryId(c.items, pm)), item |-> pm]
    ELSE IF get_item_model(r) = None THEN [c |-> c, item |-> 0]
    ELSE ByLookup(MatchByIds(c, r, get_item_model(r), get_lookup_ids(r, p)), r)

\* lines 126-187: match_existing_item_for_resource
match_existing_item_for_resource(c, r, p) ==
    ByPrematch(c, r, p, MatchPrematched(c, prematched_resources(r, p)))

\* the metadata of the resource passes the schema of the Item's representation
MetadataValid(r, content) == content # "full" \/ world[r].valid

\* model.objects.create(**obj), lines 200-204: obj is the metadata of the
\* resource (copy_metadata) and the primary lookup id
NewItem(model, id, valid) ==
    [model |-> model, ptype |-> id[1], pvalue |-> id[2], merged_to |-> 0, valid |-> valid]

\* lines 196-204: the Item created for the resource
CreateItem(c, r, p) ==
    Ev([c EXCEPT !.items = Append(@, NewItem(get_item_model(r),
                                             get_best_lookup_id(get_all_lookup_ids(r, p)),
                                             MetadataValid(r, p.content)))],
       "create", r, Len(c.items) + 1)

\* lines 205-209: the audit actions and resource.save(update_fields=["item"])
RecordChange(c, r, previous_item, it) ==
    Ev([Ev(IF previous_item # 0 THEN Ev(c, "unmatch", r, previous_item) ELSE c,
           "match", r, it)
            EXCEPT !.res[r].saved = TRUE, !.res[r].item = it],
       "save_pointer", r, it)

\* lines 206-209 without the test of line 205
WithItem_Always(c, r, p, it) ==
    [c |-> RecordChange(c, r, p.item, it), p |-> [p EXCEPT !.item = it], item |-> it]

\* lines 205-210: the resource with its Item
WithItem(c, r, p, it) ==
    [c |-> IF p.item # it THEN RecordChange(c, r, p.item, it) ELSE c,
     p |-> [p EXCEPT !.item = it], item |-> it]

\* line 195 with neither the match nor the previous Item kept
Attached_Neither(matched, previous_item) == 0

\* line 195 with the Item the resource had preferred to the match
Attached_PriorFirst(matched, previous_item) ==
    IF previous_item # 0 THEN previous_item ELSE matched

\* line 195: the match, else the Item the resource had
Attached(matched, previous_item) == IF matched # 0 THEN matched ELSE previous_item

\* lines 196-210 without the return of lines 198-199
AttachOrCreate_AnyModel(c, r, p, found) ==
    IF found = 0 THEN WithItem(CreateItem(c, r, p), r, p, Len(c.items) + 1)
    ELSE WithItem(c, r, p, found)

\* lines 196-210
AttachOrCreate(c, r, p, found) ==
    IF found = 0 /\ get_item_model(r) = None THEN [c |-> c, p |-> p, item |-> 0]
    ELSE IF found = 0 THEN WithItem(CreateItem(c, r, p), r, p, Len(c.items) + 1)
    ELSE WithItem(c, r, p, found)

\* lines 192-195: m is what match_existing_item_for_resource returned
AttachMatch(m, r, p) == AttachOrCreate(m.c, r, p, Attached(m.item, p.item))

\* lines 189-210: match_or_create_item_for_resource
match_or_create_item_for_resource(c, r, p) ==
    AttachMatch(match_existing_item_for_resource(c, r, p), r, p)

\* lines 212-220: get_item
get_item(c, r, p) ==
    IF ~ready(p) THEN [c |-> c, p |-> p, item |-> 0]
    ELSE match_or_create_item_for_resource(c, r, p)

\* SiteManager.get_site_by_url: the adapter of the page, None for a url no
\* adapter claims
get_site_by_url(url) == IF url \in ResIds THEN url ELSE None

\* lines 380-384: SiteManager.get_site_by_id
get_site_by_id(t, v) == IF t = "site" THEN v ELSE None

\* lines 252-253 left out: auto_save as the caller passed it
EffSave_AsPassed(auto_save, auto_create, auto_link) == auto_save

\* lines 250-253: the flags in effect
EffCreate(auto_create, auto_link) == auto_create \/ auto_link
EffSave(auto_save, auto_create, auto_link) == auto_save \/ auto_create \/ auto_link

\* lines 259-266 without the test of line 258: content is applied to a
\* ready resource as well
NewContent_Always(r, p, preloaded, ignore) ==
    IF preloaded # None THEN [scrape |-> FALSE, raise |-> FALSE, kind |-> preloaded]
    ELSE [scrape |-> TRUE, raise |-> world[r].scrape = "error",
          kind |-> IF world[r].scrape = "full" THEN "full" ELSE "none"]

\* lines 258-266: the content applied to the resource
NewContent(r, p, preloaded, ignore) ==
    IF ~(~ready(p) \/ ignore) THEN [scrape |-> FALSE, raise |-> FALSE, kind |-> p.content]
    ELSE IF preloaded # None THEN [scrape |-> FALSE, raise |-> FALSE, kind |-> preloaded]
    ELSE [scrape |-> TRUE, raise |-> world[r].scrape = "error",
          kind |-> IF world[r].scrape = "full" THEN "full" ELSE "none"]

\* line 275, Item.merge_data_from_external_resources: the metadata of every
\* resource stored for the Item is merged into the Item object; the outcome
\* is whether the merged object passes validation
MergedValid(c, it) ==
    \A x \in ResIds :
        (c.res[x].saved /\ c.res[x].item = it) => MetadataValid(x, c.res[x].content)

\* lines 276-280: ap_object raises on an invalid representation; else the
\* merged Item is saved and scrape_additional_data runs
ValidatedSave(c, r, it, valid) ==
    IF ~valid THEN [Ev(c, "invalid", r, it) EXCEPT !.exc = TRUE]
    ELSE Ev(Ev([c EXCEPT !.items[it].valid = TRUE], "save_item", r, it),
            "scrape_additional_data", r, it)

\* lines 274-280: the save of the attached Item
SaveItem(c, r, p) ==
    IF p.item # 0 THEN ValidatedSave(c, r, p.item, MergedValid(c, p.item)) ELSE c

\* lines 272-280: p.save() and, when an Item is attached, the Item's save
SaveStep(c, r, p) ==
    SaveItem(Ev([c EXCEPT !.res[r] = [saved |-> TRUE, content |-> p.content,
                                      item |-> p.item]],
                "save_resource", r, p.item),
             r, p)

\* lines 293-294 with the prematched descriptors left out of the test
EnqueueCrawl_RelatedOnly(c, r, p) ==
    IF related_resources(r, p) # <<>>
    THEN Ev([c EXCEPT !.crawlq = Append(@, r)], "enqueue_crawl", r, p.item)
    ELSE c

\* lines 293-294: the crawl job
EnqueueCrawl(c, r, p) ==
    IF related_resources(r, p) # <<>> \/ prematched_resources(r, p) # <<>>
    THEN Ev([c EXCEPT !.crawlq = Append(@, r)], "enqueue_crawl", r, p.item)
    ELSE c

\* lines 295-297: the second save of the Item, which writes the Item object
\* loaded by get_item (obj) and merged and validated by line 275-276
SaveLinked(c, r, p, obj) ==
    IF p.item # 0
    THEN Ev([c EXCEPT !.items[p.item] = [obj EXCEPT !.valid = TRUE]], "save_item", r, p.item)
    ELSE c

\* lines 267-269 with the early return never taken
StopsNotReady_Never(p) == FALSE

\* lines 267-269: the call stops when the resource is not ready
StopsNotReady(p) == ~ready(p)

\* line 298 returning None instead of the resource
Returned_None(p, r) == None

\* lines 269 and 298: what the call returns
Returned(p, r) == IF StopsNotReady(p) THEN None ELSE r

\* the Item object the resource holds after get_item
Loaded(c, p) == IF p.item # 0 THEN c.items[p.item] ELSE NewItem(None, NoId, TRUE)

RECURSIVE get_resource_ready(_, _, _, _, _, _, _)
RECURSIVE ResolveRequired(_, _)

\* lines 283-292 with the nested call left at its default auto_link=True
ResolveLinked_Linking(c, w, site) ==
    IF w.url = None THEN c
    ELSE IF site = None THEN Ev(c, "no_site", w.url, 0)
    ELSE get_resource_ready(Ev(c, "required", site, 0), site,
                            TRUE, TRUE, TRUE, w.content, FALSE).c

\* lines 283-292: one required descriptor
ResolveLinked(c, w, site) ==
    IF w.url = None THEN c
    ELSE IF site = None THEN Ev(c, "no_site", w.url, 0)
    ELSE get_resource_ready(Ev(c, "required", site, 0), site,
                            TRUE, TRUE, FALSE, w.content, FALSE).c

\* lines 282-292: the loop over required_resources
ResolveRequired(c, links) ==
    IF links = <<>> \/ c.exc THEN c
    ELSE ResolveRequired(ResolveLinked(c, Head(links),
                                       IF Head(links).url # None
                                       THEN get_site_by_url(Head(links).url) ELSE None),
                         Tail(links))

\* lines 293-298: c is the state after the required resources
AfterRequired(c, r, p, obj) ==
    IF c.exc THEN [c |-> c, p |-> p, ret |-> None]
    ELSE [c |-> SaveLinked(EnqueueCrawl(c, r, p), r, p, obj), p |-> p,
          ret |-> Returned(p, r)]

\* lines 282-298 without the test of auto_link at line 281: the links are
\* followed by every call
AfterSave_AlwaysLinks(c, r, p, link, obj) ==
    IF c.exc THEN [c |-> c, p |-> p, ret |-> None]
    ELSE AfterRequired(ResolveRequired(c, required_resources(r, p)), r, p, obj)

\* lines 281-298: c is the state after the save
AfterSave(c, r, p, link, obj) ==
    IF c.exc THEN [c |-> c, p |-> p, ret |-> None]
    ELSE IF ~link THEN [c |-> c, p |-> p, ret |-> Returned(p, r)]
    ELSE AfterRequired(ResolveRequired(c, required_resources(r, p)), r, p, obj)

\* lines 272-298 with the links followed before the resource and the Item
\* are saved
AfterItem_LinkFirst(g, r, save, link) ==
    LET linked == AfterSave(g.c, r, g.p, link, Loaded(g.c, g.p))
    IN  [linked EXCEPT !.c = IF save /\ ~linked.c.exc THEN SaveStep(linked.c, r, g.p)
                                ELSE linked.c]

\* lines 272-298: g is what get_item left
AfterItem(g, r, save, link) ==
    AfterSave(IF save THEN SaveStep(g.c, r, g.p) ELSE g.c, r, g.p, link, Loaded(g.c, g.p))

\* line 271: self.get_item() has returned
GotItem(g, r) == [g EXCEPT !.c = Ev(g.c, "got_item", r, g.item)]

\* lines 267-298: p is the resource after the scrape step
AfterUpdate(c, r, save, create, link, p) ==
    IF StopsNotReady(p) THEN [c |-> c, p |-> p, ret |-> Returned(p, r)]
    ELSE AfterItem(IF create THEN GotItem(get_item(Ev(c, "get_item", r, 0), r, p), r)
                   ELSE [c |-> c, p |-> p, item |-> 0],
                   r, save, link)

\* lines 258-298: n is the content to apply
AfterScrape(c, r, save, create, link, p, n) ==
    IF n.raise THEN [c |-> [Ev(c, "scrape", r, 0) EXCEPT !.exc = TRUE], p |-> p, ret |-> None]
    ELSE AfterUpdate(IF n.scrape THEN Ev(c, "scrape", r, 0) ELSE c,
                     r, save, create, link, [p EXCEPT !.content = n.kind])

\* lines 226-298: get_resource_ready.  ret is the returned resource, None for
\* a return of None or when the call raised (c.exc)
get_resource_ready(c, r, auto_save, auto_create, auto_link, preloaded, ignore) ==
    AfterScrape(c, r, EffSave(auto_save, auto_create, auto_link),
                EffCreate(auto_create, auto_link), auto_link, get_resource(c, r),
                NewContent(r, get_resource(c, r), preloaded, ignore))

\* lines 419-425: i is what site.get_item() left
Crawled(i, ret, site, merge) ==
    IF i.item = 0 THEN Ev(i.c, "crawl_failed", site, 0)
    ELSE IF ret # None /\ merge THEN Ev(i.c, "merge_data", site, i.item)
    ELSE i.c

\* lines 416-427 without the except clause: the exception leaves the loop
CrawlResolved_NoCatch(g, site, merge) ==
    IF g.c.exc THEN g.c
    ELSE Crawled(get_item(Ev(g.c, "get_item", site, 0), site, g.p), g.ret, site, merge)

\* lines 416-427: g is what get_resource_ready left; an exception is caught
CrawlResolved(g, site, merge) ==
    IF g.c.exc THEN Ev([g.c EXCEPT !.exc = FALSE], "crawl_error", site, 0)
    ELSE Crawled(get_item(Ev(g.c, "get_item", site, 0), site, g.p), g.ret, site, merge)

\* lines 415-427
CrawlSite(c, site, merge) ==
    IF site = None THEN Ev(c, "crawl_failed", None, 0)
    ELSE CrawlResolved(get_resource_ready(Ev(c, "crawl", site, 0), site,
                                          TRUE, TRUE, TRUE, None, FALSE),
                       site, merge)

\* lines 411-414 with the url tried first
SiteOfLink_UrlFirst(w, byId) == IF w.url # None THEN get_site_by_url(w.url) ELSE byId

\* lines 411-414: the adapter of a link, by id first, then by url
SiteOfLink(w, byId) == IF byId = None /\ w.url # None THEN get_site_by_url(w.url) ELSE byId

\* lines 407-427: the loop of crawl_related_resources_task over the links
RECURSIVE CrawlLinks(_, _, _)
CrawlLinks(c, links, prematched) ==
    IF links = <<>> \/ c.exc THEN c
    ELSE CrawlLinks(CrawlSite(c,
                              SiteOfLink(Head(links),
                                         IF Head(links).id_value # None /\ Head(links).id_type # None
                                         THEN get_site_by_id(Head(links).id_type, Head(links).id_value)
                                         ELSE None),
                              \E n \in DOMAIN prematched : prematched[n] = Head(links)),
                    Tail(links), prematched)

\* lines 401-427
crawl_related_resources_task(c, pk) ==
    IF ~c.res[pk].saved THEN Ev(c, "crawl_not_found", pk, 0)
    ELSE CrawlLinks(c,
                    related_resources(pk, get_resource(c, pk))
                        \o prematched_resources(pk, get_resource(c, pk)),
                    prematched_resources(pk, get_resource(c, pk)))

DefaultArgs == [auto_save |-> TRUE, auto_create |-> TRUE, auto_link |-> TRUE,
                preloaded |-> None, ignore |-> FALSE]

\* the calls explored: every flag on its own with a scrape, and the default
\* flags with preloaded content and with ignore_existing_content
Args ==
    {[DefaultArgs EXCEPT !.auto_save = s, !.auto_create = c, !.auto_link = l] :
        <<s, c, l>> \in {<<FALSE, FALSE, FALSE>>, <<TRUE, FALSE, FALSE>>,
                         <<FALSE, TRUE, FALSE>>, <<FALSE, FALSE, TRUE>>}}
    \cup {[DefaultArgs EXCEPT !.preloaded = p, !.ignore = i] :
            p \in {None, "pre"}, i \in BOOLEAN}
    \cup {[DefaultArgs EXCEPT !.auto_link = FALSE, !.auto_create = FALSE,
                              !.auto_save = FALSE, !.preloaded = "pre"]}

\* op, r, args: the call; ret, exc: what it returned, whether it raised;
\* content: the content of the resource after the scrape step; log: its events;
\* fresh: the resource was not ready before the call; n0: the Items before it;
\* first: after a repeated call, the attached Item and the Items after the first
NoCall == [op |-> "none", r |-> None, args |-> DefaultArgs, ret |-> None, exc |-> FALSE,
           content |-> "none", log |-> <<>>, fresh |-> FALSE, n0 |-> 0, first |-> [item |-> 0, n |-> 0]]

\* two rq workers run jobs at the same time
Workers == {1, 2}

\* pc: "idle", "matched" (line 195 done), "done" (line 210 done); r, p: the
\* resource the worker holds; m: the Item line 195 left in resource.item;
\* made: the Item the worker created, 0 if none
IdleWorker == [pc |-> "idle", r |-> None, p |-> [content |-> "none", item |-> 0],
               m |-> 0, made |-> 0]

InitResolvePart(W) ==
    /\ world \in W
    /\ res = [r \in ResIds |-> NoRow]
    /\ itemdb = <<>>
    /\ crawlq = <<>>
    /\ rpc = "idle"
    /\ last = NoCall
    /\ nops = 0
    /\ workers = [w \in Workers |-> IdleWorker]

Call(c, r, a) ==
    get_resource_ready(c, r, a.auto_save, a.auto_create, a.auto_link, a.preloaded, a.ignore)

\* the tables and the queue as the call or job left them
Commit(c) ==
    /\ nops < MaxOps
    /\ nops' = nops + 1
    /\ Len(c.items) <= MaxItems
    /\ Len(c.crawlq) <= MaxCrawl
    /\ res' = c.res
    /\ itemdb' = c.items
    /\ crawlq' = c.crawlq

\* the call returns: out is what get_resource_ready left
Answer(out, call) ==
    /\ Commit(out.c)
    /\ last' = [call EXCEPT !.ret = out.ret, !.exc = out.c.exc,
                            !.content = out.p.content, !.log = out.c.log]

\* a caller (the fetch task, a view, a management command) runs
\* site.get_resource_ready(...) for page r
Resolve(r, a) ==
    /\ rpc = "idle"
    /\ Answer(Call(Ctx, r, a),
              [NoCall EXCEPT !.op = "resolve", !.r = r, !.args = a,
                             !.fresh = ~ready(get_resource(Ctx, r)), !.n0 = Len(itemdb)])
    /\ rpc' = "returned"
    /\ UNCHANGED <<qvars, fvars, jvars, svars, world, workers>>

\* the caller of a call that found the resource not ready runs the same call
\* once more, right after the first
ResolveAgain ==
    /\ rpc = "returned"
    /\ last.op = "resolve"
    /\ last.fresh
    /\ Answer(Call(Ctx, last.r, last.args),
              [last EXCEPT !.first = [item |-> res[last.r].item, n |-> Len(itemdb)]])
    /\ rpc' = "repeated"
    /\ UNCHANGED <<qvars, fvars, jvars, svars, world, workers>>

\* the caller is done with what the call returned
ResolveDone ==
    /\ rpc \in {"returned", "repeated", "recrawled"}
    /\ rpc' = "idle"
    /\ last' = NoCall
    /\ UNCHANGED <<qvars, fvars, jvars, svars, world, res, itemdb, crawlq, nops, workers>>

\* the job has run: c is what crawl_related_resources_task left
CrawlDone(c, pk) ==
    /\ Commit(c)
    /\ last' = [NoCall EXCEPT !.op = "crawl", !.r = pk, !.log = c.log, !.n0 = Len(itemdb),
                              !.exc = c.exc]

\* a worker of the "crawl" queue runs the oldest job
CrawlTask ==
    /\ rpc = "idle"
    /\ crawlq # <<>>
    /\ CrawlDone(crawl_related_resources_task([Ctx EXCEPT !.crawlq = Tail(crawlq)],
                                              Head(crawlq)),
                 Head(crawlq))
    /\ rpc' = "returned"
    /\ UNCHANGED <<qvars, fvars, jvars, svars, world, workers>>

\* the job of the resource is run once more, right after the first run
CrawlAgain ==
    /\ rpc = "returned"
    /\ last.op = "crawl"
    /\ CrawlDone(crawl_related_resources_task(Ctx, last.r), last.r)
    /\ rpc' = "recrawled"
    /\ UNCHANGED <<qvars, fvars, jvars, svars, world, workers>>

\* a worker of the "crawl" queue takes the oldest job off the queue
CrawlTake ==
    /\ rpc = "idle"
    /\ crawlq # <<>>
    /\ crawlq' = Tail(crawlq)
    /\ last' = [NoCall EXCEPT !.op = "crawl", !.r = Head(crawlq)]
    /\ rpc' = "crawling"
    /\ UNCHANGED <<qvars, fvars, jvars, svars, world, res, itemdb, nops, workers>>

\* c is what crawl_related_resources_task left
CrawlJobDone(c) ==
    /\ res' = c.res
    /\ itemdb' = c.items
    /\ crawlq' = c.crawlq
    /\ last' = [last EXCEPT !.log = c.log, !.n0 = Len(itemdb), !.exc = c.exc]

\* the worker runs the job it took
CrawlJob ==
    /\ rpc = "crawling"
    /\ CrawlJobDone(crawl_related_resources_task(Ctx, last.r))
    /\ rpc' = "returned"
    /\ UNCHANGED <<qvars, fvars, jvars, svars, world, nops, workers>>

\* the row of resource r is deleted while a crawl job for it waits
ResourceDeleted(r) ==
    /\ rpc = "idle"
    /\ res[r].saved
    /\ \E n \in DOMAIN crawlq : crawlq[n] = r
    /\ res' = [res EXCEPT ![r] = NoRow]
    /\ nops < MaxOps
    /\ nops' = nops + 1
    /\ UNCHANGED <<qvars, fvars, jvars, svars, world, itemdb, crawlq, rpc, last, workers>>

\* Item.merge_to: an editor merges Item i into the live Item j of the same
\* model; the resources of i move to j
MergeItems(i, j) ==
    /\ rpc = "idle"
    /\ i \in DOMAIN itemdb /\ j \in DOMAIN itemdb
    /\ i # j
    /\ itemdb[i].merged_to = 0 /\ itemdb[j].merged_to = 0
    /\ itemdb[i].model = itemdb[j].model
    /\ itemdb' = [itemdb EXCEPT ![i].merged_to = j]
    /\ res' = [r \in ResIds |-> IF res[r].item = i THEN [res[r] EXCEPT !.item = j] ELSE res[r]]
    /\ nops < MaxOps
    /\ nops' = nops + 1
    /\ UNCHANGED <<qvars, fvars, jvars, svars, world, crawlq, rpc, last, workers>>

\* the tables as a step of a worker left them
WorkerCommit(c) ==
    /\ Len(c.items) <= MaxItems
    /\ res' = c.res
    /\ itemdb' = c.items

\* lines 258-271, 212-220: the worker has scraped page r and enters
\* match_or_create_item_for_resource with the ready resource
WorkerBegin(w, r) ==
    /\ rpc = "idle"
    /\ workers[w].pc = "idle"
    /\ nops < MaxOps
    /\ nops' = nops + 1
    /\ workers' = [workers EXCEPT ![w] = [IdleWorker EXCEPT
                      !.pc = "begun", !.r = r,
                      !.p = [get_resource(Ctx, r) EXCEPT !.content = "full"]]]
    /\ UNCHANGED <<qvars, fvars, jvars, svars, world, res, itemdb, crawlq, rpc, last>>

\* lines 190-195: m is what match_existing_item_for_resource left
WorkerMatched(w, m) ==
    /\ WorkerCommit(m.c)
    /\ workers' = [workers EXCEPT ![w].pc = "matched",
                                  ![w].m = Attached(m.item, workers[w].p.item)]

\* lines 190-195: the queries of the match and the choice of line 195
WorkerMatch(w) ==
    /\ workers[w].pc = "begun"
    /\ WorkerMatched(w, match_existing_item_for_resource(Ctx, workers[w].r, workers[w].p))
    /\ UNCHANGED <<qvars, fvars, jvars, svars, world, crawlq, rpc, last, nops>>

\* lines 196-210 with the match repeated under a lock on the Item table
WorkerCreate_Serialized(c, r, p, m) == match_or_create_item_for_resource(c, r, p)

\* lines 196-210: the Item is created when line 195 left none; m is not read
\* again from the table
WorkerCreate(c, r, p, m) == AttachOrCreate(c, r, p, m)

\* g is what lines 196-210 left
WorkerAttached(w, g) ==
    /\ WorkerCommit(g.c)
    /\ workers' = [workers EXCEPT ![w].pc = "done", ![w].p = g.p,
                                  ![w].made = IF Len(g.c.items) > Len(itemdb)
                                              THEN Len(g.c.items) ELSE 0]

\* lines 196-210
WorkerAttach(w) ==
    /\ workers[w].pc = "matched"
    /\ WorkerAttached(w, WorkerCreate(Ctx, workers[w].r, workers[w].p, workers[w].m))
    /\ UNCHANGED <<qvars, fvars, jvars, svars, world, crawlq, rpc, last, nops>>

\* the job of the worker ends
WorkerDone(w) ==
    /\ workers[w].pc = "done"
    /\ workers' = [workers EXCEPT ![w] = IdleWorker]
    /\ UNCHANGED <<qvars, fvars, jvars, svars, world, res, itemdb, crawlq, rpc, last, nops>>

(***************************************************************************)
(* Part 4.  The fetch job and its polling (_fetch_task, fetch_refresh)     *)
(***************************************************************************)

\* program constant of fetch_refresh: the retry budget of a chain of polls
MaxRetry == 10

\* the failure marker "-" returned by _fetch_task
Sentinel == "-"

\* item.url
ItemUrl(i) == "/item/" \o ToString(i)

\* the url search_by_ap_url returns when it finds the object
ApItemUrl == "/item/ap"

\* the urls a job is enqueued for: a page with an adapter, a url without
JobUrls == {"A", NoSiteUrl}

\* user_pk: None for an anonymous request; user_row: the User row exists
NoJob == [status |-> "none", url |-> None, refetch |-> FALSE, user_pk |-> None,
          user_row |-> FALSE, result |-> None]

\* resp: the last response of the chain, retry: its counter, to: the target of
\* a redirect, n: the polls of the chain so far
NoPoll == [resp |-> "none", retry |-> 0, to |-> None, n |-> 0]

InitJobPart ==
    /\ fjob = NoJob
    /\ poll = NoPoll

\* models.py lines 160-173: enqueue_fetch enqueues _fetch_task(url, is_refetch, u)
\* unless the job is queued or started
TaskEnqueue ==
    /\ fjob.status \notin {"queued", "started"}
    /\ \E url \in JobUrls, is_refetch \in BOOLEAN, u \in {None, "u1"} :
          fjob' = [status |-> "queued", url |-> url, refetch |-> is_refetch, user_pk |-> u,
                   user_row |-> u # None, result |-> None]
    /\ UNCHANGED <<qvars, fvars, rvars, svars, poll>>

\* the account of the requesting user is deleted while the job waits
UserDeleted ==
    /\ fjob.status = "queued"
    /\ fjob.user_row
    /\ fjob' = [fjob EXCEPT !.user_row = FALSE]
    /\ UNCHANGED <<qvars, fvars, rvars, svars, poll>>

\* a worker of the "fetch" queue takes the job
TaskStart ==
    /\ fjob.status = "queued"
    /\ fjob' = [fjob EXCEPT !.status = "started"]
    /\ UNCHANGED <<qvars, fvars, rvars, svars, poll>>

\* models.py lines 189-201: out is what get_resource_ready left; an exception
\* of the resolution is caught
TaskResult(out) ==
    IF out.c.exc THEN Sentinel
    ELSE IF out.ret # None /\ out.p.item # 0 THEN ItemUrl(out.p.item)
    ELSE Sentinel

\* the job ends with the status and the return value; c is the database as
\* the task left it
TaskEnds(c, status, result, call) ==
    /\ Commit(c)
    /\ fjob' = [fjob EXCEPT !.status = status, !.result = result]
    /\ last' = call

\* lines 189-201
TaskResolved(out, site) ==
    TaskEnds(out.c, "finished", TaskResult(out),
             [NoCall EXCEPT !.op = "task", !.r = site, !.ret = out.ret, !.log = out.c.log,
                            !.content = out.p.content])

\* models.py lines 176-201: _fetch_task.  User.objects.get (line 177) is
\* outside the try and raises User.DoesNotExist when the row is gone;
\* item_url is what search_by_ap_url returns for a url without adapter
FetchTask ==
    /\ fjob.status = "started"
    /\ IF fjob.user_pk # None /\ ~fjob.user_row
       THEN TaskEnds(Ctx, "failed", None, [NoCall EXCEPT !.op = "task", !.exc = TRUE])
       ELSE IF get_site_by_url(fjob.url) = None
       THEN \E item_url \in {None, ApItemUrl} :
               TaskEnds(Ctx, "finished", IF item_url # None THEN item_url ELSE Sentinel,
                        [NoCall EXCEPT !.op = "task"])
       ELSE TaskResolved(Call(Ctx, get_site_by_url(fjob.url),
                              [DefaultArgs EXCEPT !.ignore = fjob.refetch]),
                         get_site_by_url(fjob.url))
    /\ UNCHANGED <<qvars, fvars, svars, world, rpc, poll, workers>>

\* the result of the job expires from the queue's store (result_ttl)
JobExpire ==
    /\ fjob.status \in {"finished", "failed"}
    /\ fjob' = NoJob
    /\ UNCHANGED <<qvars, fvars, rvars, svars, poll>>

\* views.py line 45 with the retry budget never exhausted
RetryExhausted_Never(retry) == FALSE

\* views.py line 45
RetryExhausted(retry) == retry > MaxRetry

\* views.py lines 33-37: job.return_value(); "-" when Job.fetch raises (no job
\* with the id); None while the job is queued or started, and for a job that
\* failed
ReturnValue(job) ==
    IF job.status = "none" THEN Sentinel
    ELSE IF job.status = "finished" THEN job.result
    ELSE None

\* views.py lines 38-52: retry is the counter of this response; a final
\* response carries no counter
Respond(item_url, retry) ==
    IF item_url # None
    THEN IF item_url = Sentinel THEN [resp |-> "failed", retry |-> 0, to |-> None]
         ELSE [resp |-> "redirect", retry |-> 0, to |-> item_url]
    ELSE IF RetryExhausted(retry) THEN [resp |-> "failed", retry |-> 0, to |-> None]
    ELSE [resp |-> "refresh", retry |-> retry, to |-> None]

\* views.py lines 32-52: fetch_refresh(request, job_id); retry is the "retry"
\* parameter of the request
fetch_refresh(job, retry) == Respond(ReturnValue(job), retry + 1)

\* the client polls: the first poll of a chain carries retry 0, every later
\* poll the counter of the refresh response before it
Poll ==
    /\ poll.resp \in {"none", "refresh"}
    /\ poll' = [resp |-> fetch_refresh(fjob, poll.retry).resp,
                retry |-> fetch_refresh(fjob, poll.retry).retry,
                to |-> fetch_refresh(fjob, poll.retry).to,
                n |-> poll.n + 1]
    /\ UNCHANGED <<qvars, fvars, rvars, svars, fjob>>

\* the chain has ended; the client may start another
PollDone ==
    /\ poll.resp \in {"failed", "redirect"}
    /\ poll' = NoPoll
    /\ UNCHANGED <<qvars, fvars, rvars, svars, fjob>>

(***************************************************************************)
(* Part 5.  The site registry (SiteManager)                                *)
(***************************************************************************)

\* the adapter classes; S1 and S4 declare the same ID_TYPE
Adapters == {"S1", "S2", "S3", "S4"}

ID_TYPE(a) ==
    CASE a \in {"S1", "S4"} -> "t1"
      [] a = "S2" -> "t2"
      [] OTHER -> "t3"

\* the urls looked up: "" is empty, "bad" fails url_validate, HEAD of "r",
\* "o", "h" is redirected, "n" is claimed by no adapter
LookupUrls == {"", "bad", "p", "f", "r", "o", "h", "n"}

\* lines 359-365: url_validate(url, ...)
url_validate(url) == url # "bad"

\* lines 54-60: the url matches one of the URL_PATTERNS of the adapter
validate_url(a, url) ==
    CASE a = "S1" -> url \in {"p", "o", "h", "bad"}
      [] a \in {"S2", "S4"} -> url = "p"
      [] OTHER -> FALSE

\* lines 62-64, as overridden by the adapter
validate_url_fallback(a, url) ==
    CASE a = "S2" -> url = "f"
      [] a = "S3" -> url \in {"f", "o", "p"}
      [] OTHER -> FALSE

\* line 333: the url requests.head(url, allow_redirects=True) ends at
HeadUrl(url) ==
    CASE url = "r" -> "p"
      [] url = "o" -> "n"
      [] url = "h" -> "f"
      [] OTHER -> url

\* op: "register" or "lookup"; target: the class registered; raised: register
\* raised; url, detect: the arguments of get_site_by_url; head: "no" HEAD
\* request was made, or it was "ok", or it ended in "error"; u: what
\* get_redirected_url returned; cls, made: the class of the adapter returned
\* and the url it was constructed from
NoSiteCall == [op |-> "none", target |-> None, raised |-> FALSE, url |-> None,
               detect |-> FALSE, head |-> "no", u |-> None, cls |-> None, made |-> None]

InitSitesPart ==
    /\ registry = <<>>
    /\ redirCache = [u \in LookupUrls |-> None]
    /\ sitecall = NoSiteCall

\* line 310: id_type in SiteManager.registry
Bound(reg, id_type) == \E n \in DOMAIN reg : ID_TYPE(reg[n]) = id_type

\* lines 308-313 without the check of line 310: the id type is bound anew
register_Rebind(reg, target) ==
    [registry |-> IF Bound(reg, ID_TYPE(target))
                  THEN [n \in DOMAIN reg |->
                          IF ID_TYPE(reg[n]) = ID_TYPE(target) THEN target ELSE reg[n]]
                  ELSE Append(reg, target),
     raised |-> FALSE]

\* lines 308-313: SiteManager.register
register(reg, target) ==
    IF Bound(reg, ID_TYPE(target)) THEN [registry |-> reg, raised |-> TRUE]
    ELSE [registry |-> Append(reg, target), raised |-> FALSE]

\* an adapter module is imported: @SiteManager.register
RegisterSite(a) ==
    /\ sitecall.op = "none"
    /\ registry' = register(registry, a).registry
    /\ sitecall' = [NoSiteCall EXCEPT !.op = "register", !.target = a,
                                      !.raised = register(registry, a).raised]
    /\ UNCHANGED <<qvars, fvars, rvars, jvars, redirCache>>

\* line 337 with the url itself cached when there is no redirect
CacheValue_Url(u, url) == u

\* line 337: the value cached
CacheValue(u, url) == IF u # url THEN u ELSE ""

\* lines 332-338: head_ok tells whether the HEAD request succeeded
HeadRequest(cache, url, u, head_ok) ==
    [u |-> u, cache |-> [cache EXCEPT ![url] = CacheValue(u, url)],
     head |-> IF head_ok THEN "ok" ELSE "error"]

\* lines 323-338: SiteManager.get_redirected_url
get_redirected_url(cache, url, allow_head, head_ok) ==
    IF cache[url] = "" THEN [u |-> url, cache |-> cache, head |-> "no"]
    ELSE IF cache[url] # None THEN [u |-> cache[url], cache |-> cache, head |-> "no"]
    ELSE IF ~allow_head THEN [u |-> url, cache |-> cache, head |-> "no"]
    ELSE HeadRequest(cache, url, IF head_ok THEN HeadUrl(url) ELSE url, head_ok)

\* lines 341-344 with the last matching adapter taken
get_class_by_url_Last(reg, url) ==
    LET hits == {n \in DOMAIN reg : validate_url(reg[n], url)}
    IN  IF hits = {} THEN None ELSE reg[CHOOSE n \in hits : \A m \in hits : n >= m]

\* lines 341-344: SiteManager.get_class_by_url
get_class_by_url(reg, url) ==
    LET hits == {n \in DOMAIN reg : validate_url(reg[n], url)}
    IN  IF hits = {} THEN None ELSE reg[CHOOSE n \in hits : \A m \in hits : n <= m]

\* lines 347-353: SiteManager.get_fallback_class_by_url
get_fallback_class_by_url(reg, url) ==
    LET hits == {n \in DOMAIN reg : validate_url_fallback(reg[n], url)}
    IN  IF hits = {} THEN None ELSE reg[CHOOSE n \in hits : \A m \in hits : n <= m]

\* lines 368-370 and 372-374: the class for one url
ClassFor(reg, url) ==
    IF get_class_by_url(reg, url) # None THEN get_class_by_url(reg, url)
    ELSE get_fallback_class_by_url(reg, url)

\* lines 368-377: u is the redirected url
SiteFor(reg, u, url) ==
    IF ClassFor(reg, u) # None THEN [cls |-> ClassFor(reg, u), made |-> u]
    ELSE IF u # url /\ ClassFor(reg, url) # None THEN [cls |-> ClassFor(reg, url), made |-> url]
    ELSE [cls |-> None, made |-> None]

\* lines 367-377: red is what get_redirected_url returned
Looked(red, url, detect) ==
    /\ redirCache' = red.cache
    /\ sitecall' = [NoSiteCall EXCEPT !.op = "lookup", !.url = url, !.detect = detect,
                                      !.head = red.head, !.u = red.u,
                                      !.cls = SiteFor(registry, red.u, url).cls,
                                      !.made = SiteFor(registry, red.u, url).made]

\* lines 356-377: SiteManager.get_site_by_url(url, detect_redirection)
GetSiteByUrl ==
    /\ sitecall.op = "none"
    /\ \E url \in LookupUrls, detect \in BOOLEAN, head_ok \in BOOLEAN :
          IF url = "" \/ ~url_validate(url)
          THEN /\ sitecall' = [NoSiteCall EXCEPT !.op = "lookup", !.url = url,
                                                 !.detect = detect]
               /\ UNCHANGED redirCache
          ELSE Looked(get_redirected_url(redirCache, url, detect, head_ok), url, detect)
    /\ UNCHANGED <<qvars, fvars, rvars, jvars, registry>>

\* the caller is done with what the registry returned
SiteDone ==
    /\ sitecall.op # "none"
    /\ sitecall' = NoSiteCall
    /\ UNCHANGED <<qvars, fvars, rvars, jvars, registry, redirCache>>

\* the 3600 s timeout of a cache entry (line 337) runs out
RedirExpire(url) ==
    /\ sitecall.op = "none"
    /\ redirCache[url] # None
    /\ redirCache' = [redirCache EXCEPT ![url] = None]
    /\ UNCHANGED <<qvars, fvars, rvars, jvars, registry, sitecall>>

\* the parts a specification leaves alone
Still == InitJobPart /\ InitSitesPart

InitQuery ==
    InitQueryPart /\ InitFetchPart /\ InitResolvePart({[r \in ResIds |-> PlainPage]}) /\ Still

NextQuery == QueryIndex \/ QueryDone \/ DupCacheExpire

SpecQuery == InitQuery /\ [][NextQuery]_vars

InitFetch ==
    InitFetchPart /\ InitQueryPart /\ InitResolvePart({[r \in ResIds |-> PlainPage]}) /\ Still

NextFetch ==
    \/ \E r \in Requests : \/ FetchView(r)
                            \/ ActorLockGet(r)
                            \/ ActorLockSet(r)
                            \/ UrlLockGet(r)
                            \/ UrlLockSet(r)
                            \/ JobFetch(r)
                            \/ Enqueue(r)
    \/ \E k \in ActorKeys : ActorLockExpire(k)
    \/ \E u \in Urls : \/ UrlLockExpire(u)
                        \/ WorkerStart(u)
                        \/ WorkerFinish(u)

SpecFetch == InitFetch /\ [][NextFetch]_vars

InitResolve == InitResolvePart(Worlds) /\ InitQueryPart /\ InitFetchPart /\ Still

NextResolve ==
    \/ \E r \in ResIds, a \in Args : Resolve(r, a)
    \/ ResolveAgain
    \/ ResolveDone
    \/ CrawlTask
    \/ \E r \in ResIds : ResourceDeleted(r)
    \/ CrawlAgain
    \/ \E i, j \in 1..MaxItems : MergeItems(i, j)

SpecResolve == InitResolve /\ [][NextResolve]_vars

\* the pages are scraped in full and link to nothing
InitRace ==
    /\ InitResolvePart({w \in Worlds :
                          \A r \in ResIds : /\ w[r].scrape = "full"
                                            /\ w[r].valid
                                            /\ w[r].required = <<>>
                                            /\ w[r].related = <<>>
                                            /\ w[r].prematched = <<>>})
    /\ InitQueryPart /\ InitFetchPart /\ Still

NextRace ==
    \/ \E w \in Workers : \/ \E r \in ResIds : WorkerBegin(w, r)
                           \/ WorkerMatch(w)
                           \/ WorkerAttach(w)
                           \/ WorkerDone(w)
    \/ \E i, j \in 1..MaxItems : MergeItems(i, j)

SpecRace == InitRace /\ [][NextRace]_vars

\* one call of get_resource_ready with auto_link in effect, and then the
\* crawl jobs it leads to, run by a worker for as long as there are any
InitCrawl == InitResolve

NextCrawl ==
    \/ \E r \in ResIds, a \in {x \in Args : x.auto_link} : nops = 0 /\ Resolve(r, a)
    \/ ResolveDone
    \/ CrawlTake
    \/ CrawlJob

\* the worker of the "crawl" queue keeps taking jobs, and every job it takes
\* runs to its end (a job that was taken can always run)
SpecCrawl ==
    /\ InitCrawl
    /\ [][NextCrawl]_vars
    /\ WF_vars(CrawlTake)
    /\ WF_vars(ResolveDone)
    /\ []<>(rpc # "crawling")

\* the job runs in the worlds in which page A links to nothing
InitJob ==
    /\ InitJobPart
    /\ InitResolvePart({w \in Worlds : /\ w["A"].required = <<>>
                                       /\ w["A"].related = <<>>
                                       /\ w["A"].prematched = <<>>
                                       /\ w["B"].scrape = "full"
                                       /\ w["B"].required = <<>>
                                       /\ w["B"].related = <<>>})
    /\ InitQueryPart /\ InitFetchPart /\ InitSitesPart

NextJob ==
    \/ TaskEnqueue
    \/ UserDeleted
    \/ TaskStart
    \/ FetchTask
    \/ JobExpire
    \/ Poll
    \/ PollDone

\* the page that shows a refresh response polls again after its delay
SpecJob == InitJob /\ [][NextJob]_vars /\ WF_vars(Poll)

InitSites ==
    /\ InitSitesPart
    /\ InitQueryPart /\ InitFetchPart /\ InitJobPart
    /\ InitResolvePart({[r \in ResIds |-> PlainPage]})

NextSites ==
    \/ \E a \in Adapters : RegisterSite(a)
    \/ GetSiteByUrl
    \/ SiteDone
    \/ \E url \in LookupUrls : RedirExpire(url)

SpecSites == InitSites /\ [][NextSites]_vars

(***************************************************************************)
(* Properties of query_index                                               *)
(***************************************************************************)

\* the dedup keys of an item: its isbn / imdb_code / barcode and its work id
DedupKeys(i) == {ItemCode(i), ItemWork(i)} \ {None}

\* the keys the n-th item of the index response shares with an earlier item
SharedKeys(n) ==
    {k \in DedupKeys(qin.r[n]) : \E m \in 1..(n - 1) : k \in DedupKeys(qin.r[m])}

\* items that carry x in their dupe_to list
HoldersOf(x) == {h \in IndexCatalog : x \in Range(qout.dupe_to[h])}

\* a season that is in the list after the first loop together with its show
SeasonWithShow(s) ==
    /\ ItemClass(s) = "TVSeason"
    /\ s \in Range(qout.first)
    /\ ItemShow(s) \in Range(qout.first)

\* the first season of show sh in the list after the first loop
FirstSeasonOf(sh) ==
    qout.first[CHOOSE n \in DOMAIN qout.first :
                 /\ ItemClass(qout.first[n]) = "TVSeason" /\ ItemShow(qout.first[n]) = sh
                 /\ \A m \in 1..(n - 1) :
                      ~(ItemClass(qout.first[m]) = "TVSeason" /\ ItemShow(qout.first[m]) = sh)]

\* C4 as claimed: when a season and its show are both in the list after the
\* first loop, the show stays in the returned list and the season is removed
\* from it and attached to the show's dupe_to.
C4_ShowKeptSeasonDemoted ==
    qpc = "returned" =>
        \A s \in IndexCatalog :
            SeasonWithShow(s) =>
                /\ ItemShow(s) \in Range(qout.items)
                /\ s \notin Range(qout.items)
                /\ s \in Range(qout.dupe_to[ItemShow(s)])

\* C4 as amended: when a season and its show are both in the list after the
\* first loop, every such season stays in the returned list, the show is
\* removed from it, and the show is attached to the dupe_to list of the first
\* of these seasons and of no other item.
C4_SeasonKeptShowDemoted ==
    qpc = "returned" =>
        \A s \in IndexCatalog :
            SeasonWithShow(s) =>
                /\ s \in Range(qout.items)
                /\ ItemShow(s) \notin Range(qout.items)
                /\ HoldersOf(ItemShow(s)) = {FirstSeasonOf(ItemShow(s))}
                /\ HoldersOf(s) = {}

\* two seasons and their show have all passed the first loop
C4_Witness ==
    /\ qpc = "returned"
    /\ {5, 6, 7} \subseteq Range(qout.first)
    /\ 5 \notin Range(qout.items)
    /\ qout.dupe_to[FirstSeasonOf(5)] = <<5>>

\* C5 as claimed: an item of the index response that shares a dedup key with
\* an earlier item is not in the returned list, and it is in the dupe_to list
\* of the item that claimed such a shared key first.
C5_DupeOfFirstClaimant ==
    (qpc = "returned" /\ qout.queried) =>
        \A n \in DOMAIN qin.r :
            SharedKeys(n) # {} =>
                /\ qin.r[n] \notin Range(qout.items)
                /\ \E k \in SharedKeys(n) : qin.r[n] \in Range(qout.dupe_to[qout.claim[k]])

\* C5 as amended: an item of the index response that shares a dedup key with
\* an earlier item is not in the returned list; it is in the dupe_to list of
\* exactly one item, once, and that item precedes it in the response and was
\* emitted by the first loop.
C5_DupeOfOneEarlierEmitted ==
    (qpc = "returned" /\ qout.queried) =>
        \A n \in DOMAIN qin.r :
            SharedKeys(n) # {} =>
                /\ qin.r[n] \notin Range(qout.items)
                /\ \E x \in Range(qout.first) :
                      /\ HoldersOf(qin.r[n]) = {x}
                      /\ Cardinality({p \in DOMAIN qout.dupe_to[x] :
                                        qout.dupe_to[x][p] = qin.r[n]}) = 1
                      /\ \E m \in 1..(n - 1) : qin.r[m] = x

\* item 4 shares only work w1, first claimed by the emitted item 2, and is
\* folded into item 1, to which item 3 re-assigned w1
C5_Witness ==
    /\ qpc = "returned"
    /\ qin.r = <<1, 2, 3, 4>>
    /\ qout.items = <<1, 2>>
    /\ qout.claim["w1"] = 2
    /\ qout.dupe_to[1] = <<3, 4>>

\* C8: a call with a page outside [1,99] or with an empty or longer than 100
\* characters keyword returns no items, zero pages and zero total, and does
\* not query the index.
C8_InvalidArgsEmptyNoIndex ==
    (/\ qpc = "returned"
     /\ \/ qin.page < 1
        \/ qin.page > 99
        \/ qin.kwlen = 0
        \/ qin.kwlen > 100) =>
        /\ qout.items = <<>>
        /\ qout.pages = 0
        /\ qout.total = 0
        /\ ~qout.queried

\* page 100 with a valid keyword and a non-empty index
C8_Witness ==
    /\ qpc = "returned"
    /\ qin.page = 100
    /\ qin.kwlen = 2
    /\ qin.parsed
    /\ qin.r # <<>>
    /\ ~qout.queried
    /\ qout.items = <<>>

(***************************************************************************)
(* Properties of the fetch admission controller                            *)
(***************************************************************************)

\* every request for url u made so far went through get_fetch_lock (none was
\* a refetch), none of them is still being served, the per-url lock was set
\* and the first timeout window of that lock has not ended
WindowSettled(u) ==
    /\ u \in urlLock
    /\ ~expired[u]
    /\ ~refetched[u]
    /\ \A r \in Requests : InFlight(r) => reqs[r].url # u

\* C1 as claimed: whatever the interleaving of the fetch requests for a url
\* that fall within the per-url lock window, exactly one job is enqueued for
\* that url.
C1_ExactlyOneJobAnyInterleaving ==
    \A u \in Urls : WindowSettled(u) => enqCount[u] = 1

\* C1 as amended: when the fetch requests for a url that fall within the
\* per-url lock window are served one after another (no two of them in
\* progress at the same time), exactly one job is enqueued for that url, and
\* never more than one while they are being served.
C1_ExactlyOneJobWhenSerial ==
    \A u \in Urls :
        (~overlapped[u] /\ ~expired[u] /\ ~refetched[u]) =>
            /\ enqCount[u] <= 1
            /\ WindowSettled(u) => enqCount[u] = 1

\* two requests for url a were served one after the other within the window:
\* the first enqueued the job, the second was refused
C1_Witness ==
    /\ WindowSettled("a")
    /\ ~overlapped["a"]
    /\ reqs[1].ret = "job"
    /\ reqs[2].ret = "refused"
    /\ "a" \in urlLock /\ "b" \notin urlLock
    /\ actorLock = {ActorKey("u1"), ActorKey("u2")}
    /\ enqCount["a"] = 1

(***************************************************************************)
(* Properties of the resource resolution engine                            *)
(***************************************************************************)

\* a call of get_resource_ready has just returned
Answered == rpc \in {"returned", "repeated"} /\ last.op = "resolve"

\* the step is a call of get_resource_ready
Answering == rpc' # rpc /\ rpc' \in {"returned", "repeated"} /\ last'.op = "resolve"

\* the page a link descriptor names
Target(w) ==
    IF w.url # None THEN (IF w.url \in ResIds THEN w.url ELSE None)
    ELSE IF w.id_type = "site" THEN w.id_value ELSE None

\* the Item owned by the stored resource a link descriptor names, 0 if none
Owned(w) ==
    IF Target(w) # None /\ res[Target(w)].saved THEN res[Target(w)].item ELSE 0

\* the Item of the first prematched descriptor of page r that names a stored
\* resource owning an Item, 0 if there is none
FirstOwned(r) ==
    LET l == world[r].prematched
        owning == {n \in DOMAIN l : Owned(l[n]) # 0}
    IN  IF owning = {} THEN 0
        ELSE Owned(l[CHOOSE n \in owning : \A m \in owning : n <= m])

\* the pages with an adapter among the required descriptors of page r
RequiredPages(r) ==
    {Target(world[r].required[n]) : n \in DOMAIN world[r].required} \ {None}

PrematchedPages(r) ==
    {Target(world[r].prematched[n]) : n \in DOMAIN world[r].prematched} \ {None}

C3_MatchReturnsLiveItem ==
    \A n \in DOMAIN last.log :
        last.log[n].e \in {"matched", "prematched"} => last.log[n].to = 0

\* C6: when match_existing_item_for_resource matches, by a candidate of an
\* ideal id type, an Item whose primary id type is not ideal, the Item
\* carries the candidate's type and value and has been saved when it is
\* returned.
C6_UpgradeToIdealId ==
    \A n \in DOMAIN last.log :
        LET ev == last.log[n]
        IN  (ev.e = "matched" /\ ev.was[1] \notin IdealIdTypes /\ ev.k[1] \in IdealIdTypes)
            => /\ ev.now = ev.k
               /\ n > 1
               /\ last.log[n - 1].e = "save_item"
               /\ last.log[n - 1].i = ev.i

C6_Witness ==
    \E n \in DOMAIN last.log :
        /\ last.log[n].e = "matched"
        /\ last.log[n].was[1] = "site"
        /\ last.log[n].k[1] = "ISBN"
        /\ last.log[n].now = last.log[n].k

\* C7: when a prematched descriptor of resource A names a stored resource B
\* that owns Item I1 (the first such descriptor), and A is not attached to I1
\* yet, a call that resolves A with Item creation in effect attaches I1 to A,
\* creates no Item and records a match action on I1 for A.
C7_PrematchedAttachesExisting ==
    [][(/\ Answering
        /\ ~last'.exc
        /\ last'.content = "full"
        /\ EffCreate(last'.args.auto_create, last'.args.auto_link)
        /\ FirstOwned(last'.r) # 0
        /\ res[last'.r].item # FirstOwned(last'.r))
       => /\ res'[last'.r].item = FirstOwned(last'.r)
          /\ Len(itemdb') = Len(itemdb)
          /\ \E n \in DOMAIN last'.log :
                /\ last'.log[n].e = "match"
                /\ last'.log[n].r = last'.r
                /\ last'.log[n].i = FirstOwned(last'.r)]_vars

C7_Witness ==
    /\ rpc = "returned"
    /\ last.op = "resolve"
    /\ last.r = "A"
    /\ last.fresh
    /\ res["B"].item # 0
    /\ res["A"].item = res["B"].item
    /\ Len(itemdb) = last.n0
    /\ \E n \in DOMAIN last.log : last.log[n].e = "prematched" /\ last.log[n].r = "A"
    /\ \E n \in DOMAIN last.log :
          last.log[n].e = "match" /\ last.log[n].r = "A" /\ last.log[n].i = res["B"].item

\* C9: a call of get_resource_ready whose resource is not ready after the
\* scrape step returns None and has done nothing but the scrape: the
\* resources, the Items and the crawl queue are as they were.
C9_NotReadyStopsTheCall ==
    [][(Answering /\ ~last'.exc /\ last'.content = "none")
       => /\ last'.ret = None
          /\ res' = res
          /\ itemdb' = itemdb
          /\ crawlq' = crawlq
          /\ \A n \in DOMAIN last'.log : last'.log[n].e = "scrape"]_vars

C9_Witness ==
    /\ rpc = "returned"
    /\ last.op = "resolve"
    /\ last.args = DefaultArgs
    /\ ~last.exc
    /\ last.content = "none"
    /\ last.ret = None
    /\ Len(last.log) = 1
    /\ itemdb # <<>>

\* C10 as stated: get_resource_ready returns the resource in every outcome,
\* also when the resource is not ready after the scrape step.
C10_AlwaysReturnsResource ==
    (Answered /\ ~last.exc) => last.ret = last.r

\* C10 amended: get_resource_ready returns the resource when it is ready
\* after the scrape step, and None when it is not.
C10_ReturnsResourceIffReady ==
    (Answered /\ ~last.exc) =>
        last.ret = (IF last.content # "none" THEN last.r ELSE None)

C10_Witness ==
    /\ rpc = "returned"
    /\ last.op = "resolve"
    /\ last.fresh
    /\ last.content # "none"
    /\ last.ret = last.r

\* the call ran into an Item whose representation failed validation
ValidationFailed == \E n \in DOMAIN last.log : last.log[n].e = "invalid"

\* C11 as stated: when the validation of the Item's representation fails
\* during get_resource_ready, the exception reaches the caller and no Item
\* with an invalid representation is in the Item table afterwards, an Item
\* created by the same call included.
C11_InvalidItemNeverStored ==
    (Answered /\ ValidationFailed) =>
        /\ last.exc
        /\ \A i \in DOMAIN itemdb : itemdb[i].valid

\* position in the log of the last call of the first event e for the
\* resource of the call, 0 when there is none
FirstEv(e) ==
    LET at == {n \in DOMAIN last.log : last.log[n].e = e /\ last.log[n].r = last.r}
    IN  IF at = {} THEN 0 ELSE CHOOSE n \in at : \A m \in at : n <= m

\* position of the first event of the link-follow step (lines 281-297), past
\* the end of the log when there is none
FirstLink ==
    LET at == {n \in DOMAIN last.log :
                 last.log[n].e \in {"required", "no_site", "enqueue_crawl"}}
    IN  IF at = {} THEN Len(last.log) + 1 ELSE CHOOSE n \in at : \A m \in at : n <= m

\* the events that write to the database
WriteEvents == {"create", "save_pointer", "save_item", "save_resource"}

\* both events happened => a before b
Before(a, b) == (a # 0 /\ b # 0) => a < b

\* scrape, then match/create, then the save, then the links
StepsInOrder ==
    /\ Before(FirstEv("scrape"), FirstEv("get_item"))
    /\ Before(FirstEv("scrape"), FirstEv("save_resource"))
    /\ Before(FirstEv("get_item"), FirstEv("got_item"))
    /\ Before(FirstEv("got_item"), FirstEv("save_resource"))
    /\ FirstEv("get_item") # 0 => (FirstEv("got_item") # 0 \/ last.exc)
    /\ FirstEv("save_resource") < FirstLink
    /\ FirstLink <= Len(last.log) => FirstEv("save_resource") # 0
    /\ \A n \in DOMAIN last.log :
          (last.log[n].r = last.r /\ last.log[n].e \in {"scrape", "get_item", "got_item"})
             => n < FirstLink

\* C12 as stated: within one get_resource_ready call the steps happen in the
\* order scrape, match/create, persist, link-follow, and nothing is written
\* to the database before the match/create step has completed.
C12_NoWriteBeforeMatchCompleted ==
    Answered =>
        /\ StepsInOrder
        /\ \A n \in 1..(FirstEv("got_item") - 1) : last.log[n].e \notin WriteEvents

\* C12 amended: the steps happen in the order scrape, match/create, persist,
\* link-follow; nothing is written to the database before the match/create
\* step has started, the match/create step itself writes (the created Item,
\* the upgraded primary id, the resource's Item pointer) and nothing else
\* happens inside it, and the resource is saved only after it has completed.
C12_StepsInOrderWritesFromMatchOn ==
    Answered =>
        /\ StepsInOrder
        /\ \A n \in 1..(FirstEv("get_item") - 1) : last.log[n].e \notin WriteEvents
        /\ \A n \in (FirstEv("get_item") + 1)..(FirstEv("got_item") - 1) :
              /\ last.log[n].r = last.r
              /\ last.log[n].e \in {"prematched", "matched", "create", "unmatch", "match",
                                     "save_pointer", "save_item"}

\* a call that scraped, created the Item inside the match/create step, saved
\* and then followed a required link and enqueued nothing before the save
C12_Witness ==
    /\ Answered
    /\ ~last.exc
    /\ FirstEv("scrape") = 1
    /\ FirstEv("create") > FirstEv("get_item")
    /\ FirstEv("create") < FirstEv("got_item")
    /\ FirstEv("save_resource") > FirstEv("got_item")
    /\ FirstLink <= Len(last.log)
    /\ last.log[FirstLink].e = "required"

\* the crawl job has just run
Crawl == rpc = "returned" /\ last.op = "crawl"

\* the link descriptors of the resource of the job, related first
CrawlList ==
    IF res[last.r].saved /\ res[last.r].content = "full"
    THEN world[last.r].related \o world[last.r].prematched
    ELSE <<>>

\* the page whose adapter the job resolves for a link descriptor: by the id
\* pair when the id type is registered, else by the url, None when neither
\* gives an adapter
LinkSite(w) ==
    IF w.id_type = "site" /\ w.id_value # None THEN w.id_value
    ELSE IF w.url # None /\ w.url \in ResIds THEN w.url
    ELSE None

\* the descriptors the job has visited, each by the page it names (None for
\* a descriptor no adapter claims), in the order of the visits
Visited ==
    LET visits == SelectSeq(last.log,
                            LAMBDA ev : \/ ev.e = "crawl"
                                        \/ (ev.e = "crawl_failed" /\ ev.r = None))
    IN  [n \in DOMAIN visits |-> visits[n].r]

\* C17: crawl_related_resources_task never raises and visits every link
\* descriptor of the resource once, in list order, also the descriptors that
\* follow one whose processing raised.
C17_EveryLinkVisitedOnce ==
    Crawl =>
        /\ ~last.exc
        /\ Visited = [n \in DOMAIN CrawlList |-> LinkSite(CrawlList[n])]

\* the first descriptor raised (its scrape failed), the second was processed
C17_Witness ==
    /\ Crawl
    /\ Len(CrawlList) = 2
    /\ \E n \in DOMAIN last.log :
          /\ last.log[n].e = "crawl_error"
          /\ last.log[n].r = LinkSite(CrawlList[1])
          /\ \E m \in DOMAIN last.log :
                m > n /\ last.log[m].e = "crawl" /\ last.log[m].r = LinkSite(CrawlList[2])

\* request r moves to position pc in this step
Reaches(r, pc) == reqs[r].pc # pc /\ reqs'[r].pc = pc

\* C13: get_fetch_lock returns True (the request goes on to enqueue_fetch
\* from line 157) only along the path on which it read the per-actor lock
\* and then the per-URL lock and found each absent, and when it returns True
\* both locks are set.
C13_TrueOnlyIfBothAbsentThenBothSet ==
    [][\A r \in Requests :
          /\ Reaches(r, "actorSet") =>
                reqs[r].pc = "actorGet" /\ ActorKey(reqs[r].user) \notin actorLock
          /\ Reaches(r, "urlGet") => reqs[r].pc = "actorSet"
          /\ Reaches(r, "urlSet") =>
                reqs[r].pc = "urlGet" /\ reqs[r].url \notin urlLock
          /\ (Reaches(r, "jobFetch") /\ ~reqs'[r].refetch) =>
                /\ reqs[r].pc = "urlSet"
                /\ reqs[r].url \in urlLock'
                /\ ActorKey(reqs[r].user) \in actorLock']_vars

\* the second request was admitted after the locks of the first, set for
\* another user and another url, and holds both of its locks
C13_Witness ==
    /\ reqs[1].ret = "job"
    /\ reqs[2].pc = "jobFetch"
    /\ ~reqs[2].refetch
    /\ reqs[2].url \in urlLock
    /\ ActorKey(reqs[2].user) \in actorLock
    /\ Cardinality(urlLock) = 2

\* request r enqueues its job in this step (line 170)
Enqueues(r) == reqs[r].pc = "enqueue" /\ reqs'[r].pc = "done"

\* C14 as stated: the job of a url is kept under one id; while a job with
\* that id is queued or started enqueue_fetch enqueues nothing and returns
\* the id, and a job is enqueued only when no job with that id exists or it
\* has finished or failed.
C14_EnqueueOnlyWhenNoJobInProgress ==
    [][\A r \in Requests :
          /\ (reqs[r].pc = "jobFetch" /\ jobs[reqs[r].url] \in {"queued", "started"}
               /\ reqs'[r].pc # "jobFetch")
                => reqs'[r].pc = "done" /\ reqs'[r].ret = "job" /\ jobs' = jobs
          /\ Enqueues(r) => jobs[reqs[r].url] \in {"none", "finished", "failed"}]_vars

\* C14 amended: the job of a url is kept under one id; when the status
\* enqueue_fetch reads for that id (line 165) is queued or started it
\* enqueues nothing and returns the id; it enqueues a job, and returns the id,
\* only after it has read that no job with that id exists or that it has
\* finished or failed; and no job becomes queued in any other way.  (The read
\* and the enqueue are two steps: the job may have been enqueued by another
\* call in between.)
C14_EnqueueOnlyAfterReadingNoJobInProgress ==
    [][/\ \A r \in Requests :
            /\ (reqs[r].pc = "jobFetch" /\ reqs'[r].pc # "jobFetch") =>
                  /\ jobs' = jobs
                  /\ IF jobs[reqs[r].url] \in {"queued", "started"}
                     THEN reqs'[r].pc = "done" /\ reqs'[r].ret = "job"
                     ELSE reqs'[r].pc = "enqueue"
            /\ Reaches(r, "enqueue") =>
                  /\ reqs[r].pc = "jobFetch"
                  /\ jobs[reqs[r].url] \in {"none", "finished", "failed"}
            /\ Enqueues(r) =>
                  /\ jobs' = [jobs EXCEPT ![reqs[r].url] = "queued"]
                  /\ reqs'[r].ret = "job"
       /\ \A u \in Urls :
            (jobs'[u] = "queued" /\ jobs[u] # "queued") =>
                \E r \in Requests : Enqueues(r) /\ reqs[r].url = u]_vars

\* the first request enqueued the job, a worker started it, and the second
\* request, a refetch of the same url, found it started and enqueued nothing
C14_Witness ==
    /\ reqs[1].ret = "job"
    /\ reqs[2].ret = "job"
    /\ refetched["a"]
    /\ enqCount["a"] = 1
    /\ jobs["a"] = "started"
    /\ jobs["b"] = "none"

(***************************************************************************)
(* Properties of the fetch job and its polling                             *)
(***************************************************************************)

\* the job has run to its end
TaskOver == last.op = "task" /\ fjob.status \in {"finished", "failed"}

\* C15 as stated: _fetch_task always ends by returning a value, never by
\* raising; the value is the url of the Item when the resolution produced
\* one, and "-" in every other case (for a url without adapter, unless the
\* fallback search found it).
C15_TaskAlwaysReturns ==
    TaskOver =>
        /\ fjob.status = "finished"
        /\ IF last.r # None /\ last.ret # None /\ res[last.r].item # 0
           THEN fjob.result = ItemUrl(res[last.r].item)
           ELSE IF last.r # None THEN fjob.result = "-"
           ELSE fjob.result \in {"-", ApItemUrl}

\* a poll is answered in this step
Polled == poll'.n = poll.n + 1

\* C16: fetch_refresh answers a job that cannot be fetched or returned "-"
\* with the failure response, a job that returned an item url with a redirect
\* to it, and a job with no result yet with a retry response whose counter
\* is one more than the request's, or with the failure response once that
\* counter would exceed 10; a chain of polls has at most 11 polls and every
\* retry response is followed by a final response.
C16_PollOutcomesAndBoundedChain ==
    /\ [][Polled =>
            IF fjob.status = "none" \/ (fjob.status = "finished" /\ fjob.result = "-")
            THEN poll'.resp = "failed"
            ELSE IF fjob.status = "finished"
            THEN poll'.resp = "redirect" /\ poll'.to = fjob.result
            ELSE IF poll.retry + 1 > 10 THEN poll'.resp = "failed"
            ELSE poll'.resp = "refresh" /\ poll'.retry = poll.retry + 1]_vars
    /\ [](poll.n <= 11 /\ (poll.resp = "refresh" => poll.retry = poll.n))
    /\ (poll.resp = "refresh" ~> poll.resp \in {"failed", "redirect"})

\* the eleventh poll of a chain for a job that never finished: the retry
\* budget is used up and the response is the failure
C16_Witness ==
    /\ poll.n = 11
    /\ poll.resp = "failed"
    /\ fjob.status = "started"

(***************************************************************************)
(* Properties of the site registry                                         *)
(***************************************************************************)

\* a call of SiteManager.register, of get_site_by_url, returns in this step
Registers == sitecall.op = "none" /\ sitecall'.op = "register"
LooksUp == sitecall.op = "none" /\ sitecall'.op = "lookup"

\* C18: register raises when the id type of the adapter is already bound and
\* then leaves the registry as it was, so the id type stays bound to the
\* adapter registered first; otherwise it binds the adapter after the ones
\* already registered; no id type is ever bound to two adapters.
C18_DuplicateRegisterFailsRegistryUnchanged ==
    /\ [][Registers =>
            IF \E n \in DOMAIN registry : ID_TYPE(registry[n]) = ID_TYPE(sitecall'.target)
            THEN sitecall'.raised /\ registry' = registry
            ELSE ~sitecall'.raised /\ registry' = Append(registry, sitecall'.target)]_vars
    /\ [](\A m, n \in DOMAIN registry :
            ID_TYPE(registry[m]) = ID_TYPE(registry[n]) => m = n)

\* S4 is registered after S1, which declares the same id type: the call
\* raised and S1 is still the adapter bound
C18_Witness ==
    /\ sitecall.op = "register"
    /\ sitecall.target = "S4"
    /\ sitecall.raised
    /\ \E n \in DOMAIN registry : registry[n] = "S1"
    /\ Len(registry) >= 2

\* cls is the first adapter in registration order whose URL pattern matches x
PatternPick(cls, x) ==
    \E n \in DOMAIN registry :
        /\ registry[n] = cls
        /\ validate_url(cls, x)
        /\ \A m \in 1..(n - 1) : ~validate_url(registry[m], x)

\* cls is the first adapter in registration order whose fallback predicate
\* matches x
FallbackPick(cls, x) ==
    \E n \in DOMAIN registry :
        /\ registry[n] = cls
        /\ validate_url_fallback(cls, x)
        /\ \A m \in 1..(n - 1) : ~validate_url_fallback(registry[m], x)

NoPattern(x) == \A n \in DOMAIN registry : ~validate_url(registry[n], x)
NoFallback(x) == \A n \in DOMAIN registry : ~validate_url_fallback(registry[n], x)

\* the two steps on one url
Selected(cls, x) == PatternPick(cls, x) \/ (NoPattern(x) /\ FallbackPick(cls, x))
NoneFor(x) == NoPattern(x) /\ NoFallback(x)

\* the selection order of C19 for the original url and the resolved url u
SelectionOrder(url, u) ==
    \/ Selected(sitecall.cls, u) /\ sitecall.made = u
    \/ /\ NoneFor(u)
       /\ u # url
       /\ Selected(sitecall.cls, url)
       /\ sitecall.made = url
    \/ /\ NoneFor(u)
       /\ u = url \/ NoneFor(url)
       /\ sitecall.cls = None

\* C19 as stated, for every url: the adapter is the first whose pattern
\* matches the redirect-resolved url, else the first whose fallback predicate
\* matches it, else (the resolved url differing from the original) the same
\* on the original url, else none.  A url that was not resolved is its own
\* resolved url.
C19_SelectionOrderEveryUrl ==
    sitecall.op = "lookup" =>
        SelectionOrder(sitecall.url,
                       IF sitecall.u = None THEN sitecall.url ELSE sitecall.u)

\* C19 amended: an empty url and a url that fails url_validate yield none
\* without any resolution or selection; for every other url the selection
\* order is the one stated.
C19_SelectionOrderForValidUrl ==
    sitecall.op = "lookup" =>
        IF sitecall.url = "" \/ ~url_validate(sitecall.url)
        THEN sitecall.cls = None /\ sitecall.u = None /\ sitecall.head = "no"
        ELSE sitecall.u # None /\ SelectionOrder(sitecall.url, sitecall.u)

\* the resolved url "n" is claimed by no adapter; the original "o" matches
\* the pattern of S1 and the fallback predicate of S3, registered before S1:
\* S1 is returned, constructed from the original url
C19_Witness ==
    /\ sitecall.op = "lookup"
    /\ sitecall.url = "o"
    /\ sitecall.u = "n"
    /\ sitecall.cls = "S1"
    /\ sitecall.made = "o"
    /\ \E m, n \in DOMAIN registry : m < n /\ registry[m] = "S3" /\ registry[n] = "S1"

\* C20: when the HEAD request fails, get_redirected_url returns the original
\* url and caches "" for it; a call that finds "" cached for the url returns
\* the original url, makes no HEAD request and leaves the cache as it is.
C20_HeadFailureDegradesToNoRedirect ==
    /\ [][(LooksUp /\ sitecall'.head = "error") =>
            /\ sitecall'.u = sitecall'.url
            /\ redirCache'[sitecall'.url] = ""
            /\ \A x \in LookupUrls \ {sitecall'.url} : redirCache'[x] = redirCache[x]]_vars
    /\ [][(LooksUp /\ sitecall'.u # None /\ redirCache[sitecall'.url] = "") =>
            /\ sitecall'.u = sitecall'.url
            /\ sitecall'.head = "no"
            /\ redirCache' = redirCache]_vars

\* a lookup with redirect detection of "r", whose HEAD request would be
\* redirected to "p": the entry "" left by a failed HEAD request is found,
\* no request is made and "r" itself is the resolved url
C20_Witness ==
    /\ sitecall.op = "lookup"
    /\ sitecall.url = "r"
    /\ sitecall.detect
    /\ sitecall.head = "no"
    /\ sitecall.u = "r"
    /\ redirCache["r"] = ""

(***************************************************************************)
(* Properties of the resolution flags, the links and the crawl job         *)
(***************************************************************************)

\* C21: in get_resource_ready auto_link implies auto_create and auto_create
\* implies auto_save, whatever the caller passed for the weaker flags: a call
\* whose resource is ready runs the match/create step exactly when auto_link
\* or auto_create was passed, and saves the resource exactly when any of the
\* three flags was passed; and every Item created during a call belongs to a
\* resource that is saved later in the same call.
C21_FlagsCascade ==
    Answered =>
        /\ (~last.exc /\ last.content # "none") =>
              /\ (last.args.auto_link \/ last.args.auto_create) <=> FirstEv("get_item") # 0
              /\ (last.args.auto_link \/ last.args.auto_create \/ last.args.auto_save)
                    <=> FirstEv("save_resource") # 0
              /\ ~last.args.auto_link => FirstLink > Len(last.log)
        /\ \A n \in DOMAIN last.log :
              last.log[n].e = "create" =>
                 /\ res[last.log[n].r].saved
                 /\ \E m \in DOMAIN last.log :
                       /\ m > n
                       /\ last.log[m].e = "save_resource"
                       /\ last.log[m].r = last.log[n].r

\* a call with auto_link only (auto_create and auto_save passed as false)
\* created the Item and then saved the resource
C21_Witness ==
    /\ Answered
    /\ ~last.exc
    /\ last.args.auto_link /\ ~last.args.auto_create /\ ~last.args.auto_save
    /\ FirstEv("create") # 0
    /\ FirstEv("save_resource") > FirstEv("create")
    /\ res[last.r].saved
    /\ res[last.r].item # 0

\* worker w runs lines 196-210 in this step
Attaches(w) == workers[w].pc = "matched" /\ workers'[w].pc = "done"

\* C22: Item creation is not serialized.  A worker whose match (line 195)
\* left no Item creates one at line 204 whatever the Item table holds by
\* then, also when another worker has created an Item with the same primary
\* lookup id since the match; a worker whose match left an Item creates none.
\* (The state with two live Items of one primary lookup id is C22_Witness.)
C22_CreateFollowsOwnMatch ==
    [][\A w \in Workers :
          Attaches(w) =>
             IF workers[w].m = 0 /\ get_item_model(workers[w].r) # None
             THEN /\ Len(itemdb') = Len(itemdb) + 1
                  /\ workers'[w].made = Len(itemdb')
                  /\ res'[workers[w].r].item = Len(itemdb')
                  /\ itemdb'[Len(itemdb')].merged_to = 0
                  /\ PrimaryId(itemdb', Len(itemdb')) =
                        get_best_lookup_id(get_all_lookup_ids(workers[w].r, workers[w].p))
             ELSE itemdb' = itemdb /\ workers'[w].made = 0]_vars

\* two workers resolved the pages A and B, which carry the same ISBN, at
\* the same time: each created an Item, the two Items are live, have the
\* same primary lookup id and neither is merged into the other
C22_Witness ==
    /\ workers[1].pc = "done" /\ workers[2].pc = "done"
    /\ workers[1].r = "A" /\ workers[2].r = "B"
    /\ workers[1].made # 0 /\ workers[2].made # 0
    /\ workers[1].made # workers[2].made
    /\ res["A"].item = workers[1].made
    /\ res["B"].item = workers[2].made
    /\ PrimaryId(itemdb, workers[1].made) = PrimaryId(itemdb, workers[2].made)
    /\ PrimaryId(itemdb, workers[1].made)[1] = "ISBN"
    /\ itemdb[workers[1].made].merged_to = 0
    /\ itemdb[workers[2].made].merged_to = 0
    /\ Len(itemdb) = 2

\* the required descriptors of the resource of the last call that have a url
RequiredWithUrl ==
    IF last.content = "full"
    THEN SelectSeq(world[last.r].required, LAMBDA w : w.url # None)
    ELSE <<>>

\* the events of the loop over the required descriptors
RequiredEvents == SelectSeq(last.log, LAMBDA ev : ev.e \in {"required", "no_site"})

\* C24: a call with auto_link goes through the required descriptors that
\* have a url, in order: for a url no adapter claims nothing is done and the
\* loop goes on; for every other one the adapter's get_resource_ready runs
\* with auto_link=false (it follows no link of its own and enqueues no crawl
\* job) and with the descriptor's inline content as preloaded content (the
\* page is scraped only when the descriptor has none); the call returns the
\* resource, and when it raises the cause is a scrape or a validation, never
\* a url without adapter.
C24_RequiredResolvedMissingAdapterSkipped ==
    (Answered /\ last.args.auto_link /\ last.content # "none") =>
        /\ last.exc =>
              /\ last.log[Len(last.log)].e \in {"scrape", "invalid"}
              /\ Len(RequiredEvents) <= Len(RequiredWithUrl)
        /\ ~last.exc =>
              /\ last.ret = last.r
              /\ Len(RequiredEvents) = Len(RequiredWithUrl)
        /\ \A n \in DOMAIN RequiredEvents :
              /\ RequiredEvents[n].r = RequiredWithUrl[n].url
              /\ RequiredEvents[n].e = "no_site" <=> RequiredWithUrl[n].url \notin ResIds
              /\ RequiredWithUrl[n].content # None =>
                    \A m \in DOMAIN last.log :
                        ~(last.log[m].e = "scrape" /\ last.log[m].r = RequiredWithUrl[n].url)
        /\ \A m \in DOMAIN last.log :
              last.log[m].e = "enqueue_crawl" => last.log[m].r = last.r

\* the required descriptors are X (no adapter), B with inline content, C by
\* id only and C by url: X was skipped, B was made ready from the inline
\* content without a scrape, C was scraped, and the resource was returned
C24_Witness ==
    /\ Answered
    /\ ~last.exc
    /\ last.r = "A"
    /\ last.ret = "A"
    /\ Len(world["A"].required) = 4
    /\ Len(RequiredEvents) = 3
    /\ RequiredEvents[1].e = "no_site"
    /\ RequiredEvents[2].r = "B"
    /\ RequiredEvents[3].r = "C"
    /\ res["B"].saved /\ res["B"].content = "pre"
    /\ res["C"].saved /\ res["C"].content = "full"
    /\ \E m \in DOMAIN last.log : last.log[m].e = "scrape" /\ last.log[m].r = "C"

\* the resource of the call that returns in this step has a related or a
\* prematched descriptor
HasLinksAfter ==
    /\ last'.content = "full"
    /\ world[last'.r].related # <<>> \/ world[last'.r].prematched # <<>>

\* C25: a call of get_resource_ready puts one job for the resource's key at
\* the end of the "crawl" queue when auto_link was passed, the resource is
\* ready after the scrape step, it has a related or a prematched descriptor,
\* and the call did not raise; otherwise it leaves the queue as it is.
C25_CrawlEnqueuedIffLinked ==
    [][Answering =>
          /\ crawlq' = IF /\ last'.args.auto_link
                          /\ ~last'.exc
                          /\ HasLinksAfter
                       THEN Append(crawlq, last'.r)
                       ELSE crawlq
          /\ \A n \in DOMAIN last'.log :
                last'.log[n].e = "enqueue_crawl" =>
                   /\ last'.log[n].r = last'.r
                   /\ \A m \in DOMAIN last'.log : last'.log[m].e = "enqueue_crawl" => m = n]_vars

\* a call with auto_link for a resource that has a prematched descriptor and
\* no related one: one job, for the resource, was added to the queue
C25_Witness ==
    /\ Answered
    /\ ~last.exc
    /\ last.args.auto_link
    /\ world[last.r].related = <<>>
    /\ world[last.r].prematched # <<>>
    /\ crawlq = <<last.r>>
    /\ Cardinality({n \in DOMAIN last.log : last.log[n].e = "enqueue_crawl"}) = 1

\* a worker runs the crawl job at the head of the queue in this step
CrawlRuns == rpc = "idle" /\ rpc' = "returned" /\ last'.op = "crawl"

\* the descriptors the job goes through: the related ones, then the
\* prematched ones, of the stored resource
LinksOf(pk) ==
    IF res[pk].content = "full" THEN world[pk].related \o world[pk].prematched ELSE <<>>

\* C26: crawl_related_resources_task does nothing when the row of the
\* resource is gone; otherwise it goes through the related descriptors in
\* order and then the prematched ones in order, and takes for each the
\* adapter of the id pair when id type and id value are present and the type
\* is registered, and the adapter of the url only when the id pair gave none.
C26_CrawlVisitsRelatedThenPrematchedIdFirst ==
    [][CrawlRuns =>
          /\ last'.r = Head(crawlq)
          /\ IF ~res[last'.r].saved
             THEN /\ res' = res
                  /\ itemdb' = itemdb
                  /\ crawlq' = Tail(crawlq)
                  /\ Len(last'.log) = 1
                  /\ last'.log[1].e = "crawl_not_found"
             ELSE Visited' = [n \in DOMAIN LinksOf(last'.r) |-> LinkSite(LinksOf(last'.r)[n])]]_vars

\* the related descriptor names B by url and C by a registered id pair, the
\* prematched one names B by url and carries an unregistered id type: the
\* job resolved C, then B
C26_Witness ==
    /\ Crawl
    /\ last.r = "A"
    /\ Len(world["A"].related) = 1
    /\ world["A"].related[1].url = "B"
    /\ world["A"].related[1].id_value = "C"
    /\ world["A"].prematched = <<Desc("B", "unreg", "x", None)>>
    /\ Visited = <<"C", "B">>

\* the pages the prematched descriptors of the resource of the job resolve to
PrematchedSites ==
    {LinkSite(world[last.r].prematched[n]) : n \in DOMAIN world[last.r].prematched} \ {None}

\* the merges of scraped data the job made: the page whose data was merged
\* and the Item it was merged into
Merges == {<<last.log[n].r, last.log[n].i>> : n \in {m \in DOMAIN last.log :
                                                       last.log[m].e = "merge_data"}}

\* the job raised while it processed the link to page s
CrawlFailedFor(s) ==
    \E n \in DOMAIN last.log : last.log[n].e = "crawl_error" /\ last.log[n].r = s

\* the data of a link is merged exactly when the link is a prematched
\* descriptor and resolved to a ready resource with an Item
MergedWhenPrematched ==
    /\ \A mg \in Merges : mg[1] \in PrematchedSites
    /\ \A s \in PrematchedSites :
          (CrawlList # <<>> /\ ~CrawlFailedFor(s) /\ res[s].saved /\ res[s].item # 0)
             => \E mg \in Merges : mg[1] = s

\* C27 as stated: the scraped data of a crawled link is merged into the Item
\* of the resource the job was started for, exactly when the link is one of
\* its prematched descriptors and resolved to a ready resource with an Item.
C27_MergeIntoOriginatingItem ==
    Crawl =>
        /\ MergedWhenPrematched
        /\ \A mg \in Merges : mg[2] = res[last.r].item

\* the events e of the last call for its own resource, as (position, Item)
OwnEvents(e) ==
    {<<n, last.log[n].i>> : n \in {m \in DOMAIN last.log :
                                     last.log[m].e = e /\ last.log[m].r = last.r}}

\* the Item match_or_create_item_for_resource returned to the last call
NewItemOfCall == last.log[FirstEv("got_item")].i

\* the events lie inside the match/create step of the call
InsideMatchCreate(evs) ==
    \A ev \in evs : FirstEv("get_item") < ev[1] /\ ev[1] < FirstEv("got_item")

\* C28: match_or_create_item_for_resource, run by get_resource_ready for a
\* resource whose Item was prev, records a match action on the Item it
\* returns and saves the resource's Item pointer exactly when that Item is
\* not prev, and then also an unmatch action on prev if there was one; when
\* the Item is prev it records no action and does not save the resource.
C28_AuditAndSaveIffItemChanged ==
    [][(Answering /\ FirstEv("got_item")' # 0) =>
          LET prev == IF res[last'.r].saved THEN res[last'.r].item ELSE 0
          IN  IF NewItemOfCall' # prev
              THEN /\ \E n \in DOMAIN last'.log :
                         /\ OwnEvents("match")' = {<<n, NewItemOfCall'>>}
                         /\ OwnEvents("save_pointer")' = {<<n + 1, NewItemOfCall'>>}
                         /\ OwnEvents("unmatch")' =
                               IF prev # 0 THEN {<<n - 1, prev>>} ELSE {}
                   /\ InsideMatchCreate(OwnEvents("match") \cup OwnEvents("save_pointer")
                                           \cup OwnEvents("unmatch"))'
              ELSE /\ OwnEvents("match")' = {}
                   /\ OwnEvents("save_pointer")' = {}
                   /\ OwnEvents("unmatch")' = {}]_vars

\* resource A was attached to its own Item; a later call found the Item of
\* the prematched resource B: unmatch on the old Item, match on the new one,
\* and the pointer of A saved
C28_Witness ==
    /\ Answered
    /\ ~last.exc
    /\ last.r = "A"
    /\ \E n \in DOMAIN last.log :
          /\ last.log[n].e = "unmatch" /\ last.log[n].r = "A"
          /\ last.log[n + 1].e = "match" /\ last.log[n + 1].r = "A"
          /\ last.log[n].i # last.log[n + 1].i
          /\ last.log[n].i # 0
          /\ last.log[n + 2].e = "save_pointer"
          /\ res["A"].item = last.log[n + 1].i
          /\ res["B"].item = last.log[n + 1].i

\* the call that returns in this step ran the match/create step for a
\* resource without Item whose Item subtype cannot be determined
Undetermined ==
    /\ Answering
    /\ FirstEv("got_item")' # 0
    /\ get_item_model(last'.r) = None
    /\ ~res[last'.r].saved \/ res[last'.r].item = 0

\* the match/create step of the call returned None and did nothing
NothingDone ==
    /\ FirstEv("got_item") # 0
    /\ FirstEv("got_item") = FirstEv("get_item") + 1
    /\ NewItemOfCall = 0
    /\ res[last.r].item = 0

\* C29 as stated: when the Item subtype of a resource without Item cannot be
\* determined, match_or_create_item_for_resource returns None, creates no
\* Item, records no action and neither changes nor saves the Item pointer.
C29_UndeterminedSubtypeNoEffect ==
    [][Undetermined => NothingDone']_vars

\* C29 amended: the same, unless a prematched descriptor of the resource
\* names a stored resource that owns an Item: that Item is then returned and
\* attached (match action, pointer saved) although the subtype is
\* undetermined; no Item is created in either case.
C29_UndeterminedSubtypeNoEffectUnlessPrematched ==
    [][Undetermined =>
          /\ OwnEvents("create")' = {}
          /\ IF last'.content = "full" /\ FirstOwned(last'.r) # 0
             THEN /\ NewItemOfCall' = FirstOwned(last'.r)
                  /\ res'[last'.r].item = FirstOwned(last'.r)
                  /\ OwnEvents("save_pointer")' # {}
             ELSE NothingDone']_vars

\* a call for page A, whose subtype is undetermined and which had no Item,
\* while Items exist: the step returned None and did nothing
C29_Witness ==
    /\ Answered
    /\ ~last.exc
    /\ last.r = "A"
    /\ get_item_model("A") = None
    /\ world["A"].prematched = <<>>
    /\ itemdb # <<>>
    /\ NothingDone
    /\ \A i \in DOMAIN itemdb : PrimaryId(itemdb, i) # OwnId("A")

\* the Item match_existing_item_for_resource returned to the match/create
\* step of the last call, 0 for None
MatchOfCall ==
    LET at == {n \in DOMAIN last.log : /\ last.log[n].e \in {"matched", "prematched"}
                                       /\ last.log[n].r = last.r
                                       /\ FirstEv("get_item") < n
                                       /\ n < FirstEv("got_item")}
    IN  IF at = {} THEN 0 ELSE last.log[CHOOSE n \in at : \A m \in at : n <= m].i

\* C30: in match_or_create_item_for_resource the Item found by
\* match_existing_item_for_resource becomes the resource's Item whatever Item
\* the resource had; the prior Item is kept only when no match is found; and
\* an Item is created only when there is neither a match nor a prior Item
\* (and then whenever the subtype is determined).
C30_MatchReplacesPriorItem ==
    [][(Answering /\ FirstEv("got_item")' # 0) =>
          LET prev == IF res[last'.r].saved THEN res[last'.r].item ELSE 0
          IN  /\ MatchOfCall' # 0 => NewItemOfCall' = MatchOfCall'
              /\ (MatchOfCall' = 0 /\ prev # 0) => NewItemOfCall' = prev
              /\ (NewItemOfCall' = prev /\ prev # 0) =>
                    (MatchOfCall' = 0 \/ MatchOfCall' = prev)
              /\ OwnEvents("create")' # {} <=>
                    (MatchOfCall' = 0 /\ prev = 0 /\ get_item_model(last'.r) # None)
              /\ \A ev \in OwnEvents("create")' :
                    ev[2] = NewItemOfCall' /\ ev[2] = Len(itemdb) + 1]_vars

\* the resource was attached to an Item under its ISBN; a refetch with
\* preloaded content, which carries no ISBN, matched nothing: the prior Item
\* was kept and no Item was created
C30_Witness ==
    /\ Answered
    /\ ~last.exc
    /\ last.args.ignore
    /\ last.content = "pre"
    /\ FirstEv("got_item") # 0
    /\ MatchOfCall = 0
    /\ NewItemOfCall # 0
    /\ NewItemOfCall = res[last.r].item
    /\ OwnEvents("create") = {}
    /\ Len(itemdb) = last.n0

(***************************************************************************)
(* Properties of the match, the scrape step and the re-runs                *)
(***************************************************************************)

\* position of the last "get_item" event before position n of the log: the
\* call of get_item that the event at n belongs to
EnteredAt(n) ==
    LET at == {m \in 1..(n - 1) : last.log[m].e = "get_item"}
    IN  IF at = {} THEN 0 ELSE CHOOSE m \in at : \A k \in at : k <= m

\* the saves of an Item made since get_item was entered, before position n
SavesByMatch(n) ==
    {m \in (EnteredAt(n) + 1)..(n - 1) : last.log[m].e = "save_item"}

\* the match returned at position n of the log had no reason to promote:
\* the Item's primary id type was ideal already, or the candidate's is not
NoPromotion(n) ==
    \/ last.log[n].e = "prematched"
    \/ /\ last.log[n].e = "matched"
       /\ (last.log[n].was[1] \in IdealIdTypes \/ last.log[n].k[1] \notin IdealIdTypes)

\* C31: match_existing_item_for_resource never demotes: when the Item it
\* matches has a primary lookup id of an ideal type already, or the
\* candidate that matched is not of an ideal type, the Item is returned with
\* its primary lookup id type and value as they were found, and the match
\* has not saved the Item.
C31_NeverDemotes ==
    \A n \in DOMAIN last.log :
        NoPromotion(n) =>
            /\ EnteredAt(n) # 0
            /\ last.log[n].now = last.log[n].was
            /\ SavesByMatch(n) = {}

\* an Item filed under an ISBN was matched by the resource's own id (through
\* the Item merged into it): it kept the ISBN and was not saved by the match
C31_Witness ==
    \E n \in DOMAIN last.log :
        /\ last.log[n].e = "matched"
        /\ last.log[n].was[1] \in IdealIdTypes
        /\ last.log[n].k[1] \notin IdealIdTypes
        /\ last.log[n].now = last.log[n].was
        /\ PrimaryId(itemdb, last.log[n].i) = last.log[n].was
        /\ SavesByMatch(n) = {}

\* the saves of an Item made inside the match/create step of the last call
SavesInMatchCreate ==
    {n \in DOMAIN last.log : /\ last.log[n].e = "save_item"
                             /\ FirstEv("get_item") < n
                             /\ n < FirstEv("got_item")}

\* C32: match_existing_item_for_resource takes the prematched descriptors in
\* list order, each by its url when it has one and by its id pair otherwise;
\* the first descriptor that names a stored resource owning an Item gives
\* the result, and then no lookup id is tried; descriptors naming no stored
\* resource, or one without an Item, are passed over.
C32_PrematchedInOrderUrlFirst ==
    [][(Answering /\ FirstEv("got_item")' # 0) =>
          LET first == IF last'.content = "full" THEN FirstOwned(last'.r) ELSE 0
          IN  /\ first # 0 => /\ MatchOfCall' = first
                              /\ Cardinality(OwnEvents("prematched")') = 1
                              /\ OwnEvents("matched")' = {}
                              /\ SavesInMatchCreate' = {}
              /\ first = 0 => OwnEvents("prematched")' = {}]_vars

\* the first descriptor names B by url and C by id pair, the second names C
\* by id pair; B is not stored and C owns an Item: the first descriptor was
\* passed over and the second gave the Item of C
C32_Witness ==
    /\ Answered
    /\ last.r = "A"
    /\ Len(world["A"].prematched) = 2
    /\ world["A"].prematched[1].url = "B"
    /\ world["A"].prematched[1].id_value = "C"
    /\ world["A"].prematched[2].url = None
    /\ ~res["B"].saved
    /\ res["C"].item # 0
    /\ FirstEv("got_item") # 0
    /\ MatchOfCall = res["C"].item
    /\ OwnEvents("prematched") # {}
    /\ res["A"].item = res["C"].item

(***************************************************************************)
(* Properties of the per-actor gate and of refetch                         *)
(***************************************************************************)

\* request r sets the per-actor lock in this step (models.py line 150)
SetsActorLock(r) == reqs[r].pc = "actorSet" /\ reqs'[r].pc = "urlGet"

\* request r is answered by the per-actor gate in this step (lines 148-149)
AtActorGate(r) == reqs[r].pc = "actorGet" /\ reqs'[r].pc # "actorGet"

\* users u and v share the per-actor lock: they are the same user, or both
\* are unauthenticated
SameActor(u, v) == u = v \/ (~is_authenticated(u) /\ ~is_authenticated(v))

\* C33: the per-actor gate refuses a caller exactly when the lock of that
\* caller is set; a call of get_fetch_lock by user u sets the lock of u and,
\* when u is unauthenticated, of every unauthenticated caller, and changes
\* the lock of no other user; a lock that is set stays set until its
\* timeout runs out.
C33_ActorGatePerUserAnonymousShared ==
    [][/\ \A r \in Requests :
            /\ AtActorGate(r) => (reqs'[r].ret = "refused" <=> ActorLocked(reqs[r].user))
            /\ SetsActorLock(r) =>
                  \A v \in Users :
                      /\ SameActor(reqs[r].user, v) => ActorLocked(v)'
                      /\ ~SameActor(reqs[r].user, v) => (ActorLocked(v)' <=> ActorLocked(v))
       /\ \A v \in Users :
            (ActorLocked(v) /\ ~ActorLocked(v)') => (reqs' = reqs /\ urlLock' = urlLock)
       /\ \A v \in Users :
            (~ActorLocked(v) /\ ActorLocked(v)') =>
                \E r \in Requests : SetsActorLock(r) /\ SameActor(reqs[r].user, v)]_vars

\* an anonymous request for url a was admitted and has set the shared lock;
\* a second anonymous request, for url b, is at the per-actor gate and finds
\* the lock set, while the lock of no authenticated user is set
C33_Witness ==
    /\ reqs[1].ret = "job"
    /\ reqs[2].pc = "actorGet" /\ reqs[2].user = "anon" /\ reqs[2].url = "b"
    /\ actorLock = {ActorKey("anon")}
    /\ ActorLocked(reqs[2].user)
    /\ ~ActorLocked("u1") /\ ~ActorLocked("u2")
    /\ urlLock = {"a"}
    /\ enqCount["a"] = 1

\* get_fetch_lock returns False to request r in this step, at the per-actor
\* gate (line 149) or at the per-url gate (line 155)
RefusedAtActorGate(r) == AtActorGate(r) /\ reqs'[r].ret = "refused"
RefusedAtUrlGate(r) == reqs[r].pc = "urlGet" /\ reqs'[r].ret = "refused"

\* C37: a call of get_fetch_lock refused at the per-actor gate has written
\* no lock; a call refused at the per-url gate found the per-actor lock
\* absent and has set it before it is refused: the lock of its actor is set
\* when it returns False, so that the per-actor gate refuses the next call
\* of that actor until the timeout of the lock runs out.
C37_RefusedForUrlLeavesActorLock ==
    [][\A r \in Requests :
          /\ RefusedAtActorGate(r) => (actorLock' = actorLock /\ urlLock' = urlLock)
          /\ (reqs[r].pc = "actorGet" /\ reqs'[r].pc = "actorSet") => ~ActorLocked(reqs[r].user)
          /\ reqs'[r].pc = "actorSet" => reqs[r].pc \in {"actorGet", "actorSet"}
          /\ (reqs[r].pc # "urlGet" /\ reqs'[r].pc = "urlGet") =>
                (reqs[r].pc = "actorSet" /\ ActorKey(reqs[r].user) \in actorLock')
          /\ RefusedAtUrlGate(r) =>
                /\ UrlLocked(reqs[r].url)
                /\ ActorLocked(reqs[r].user)
                /\ ActorKey(reqs[r].user) \in actorLock'
                /\ actorLock' = actorLock /\ urlLock' = urlLock
                /\ \A q \in Requests :
                      (reqs'[q].pc = "actorGet" /\ SameActor(reqs'[q].user, reqs[r].user))
                         => ActorKey(reqs'[q].user) \in actorLock']_vars

\* the first request was admitted for url a; the second, by another actor,
\* has set its per-actor lock and was then refused for url a
C37_Witness ==
    /\ reqs[1].ret = "job"
    /\ reqs[2].ret = "refused"
    /\ actorLock = {ActorKey("anon"), ActorKey("u1")}
    /\ urlLock = {"a"}
    /\ ~expired["a"] /\ ~expired["b"]
    /\ jobs["a"] # "none" /\ jobs["b"] = "none"

\* request r is a refetch that the view serves in this step
RefetchStep(r) == (reqs[r].refetch \/ reqs'[r].refetch) /\ reqs'[r] # reqs[r]

\* C38: a request served by fetch with is_refetch set goes straight to
\* enqueue_fetch, whatever locks are present: it reads and sets neither the
\* per-actor nor the per-url lock, is never refused, and enqueues its job
\* unless enqueue_fetch finds the job of the url queued or started.
C38_RefetchBypassesLocks ==
    [][\A r \in Requests :
          RefetchStep(r) =>
              /\ actorLock' = actorLock
              /\ urlLock' = urlLock
              /\ reqs[r].pc \in {"new", "jobFetch", "enqueue"}
              /\ reqs[r].pc = "new" => reqs'[r].pc = "jobFetch"
              /\ reqs[r].pc = "jobFetch" =>
                    IF InProgress(reqs[r].url)
                    THEN reqs'[r].ret = "job" /\ jobs' = jobs
                    ELSE reqs'[r].pc = "enqueue" /\ jobs' = jobs
              /\ reqs[r].pc = "enqueue" =>
                    /\ reqs'[r].ret = "job"
                    /\ jobs'[reqs[r].url] = "queued"
              /\ reqs'[r].ret # "refused"]_vars

\* u1 was admitted for url a and its job has finished; the refetch of url a
\* by u1 has passed to the enqueue although both locks are still set
C38_Witness ==
    /\ reqs[1].ret = "job"
    /\ reqs[2].refetch
    /\ reqs[2].pc = "enqueue"
    /\ reqs[2].user = "u1" /\ reqs[2].url = "a"
    /\ ActorLocked("u1")
    /\ actorLock = {ActorKey("u1")}
    /\ UrlLocked("a")
    /\ ~expired["a"]
    /\ enqCount["a"] = 1
    /\ jobs["a"] = "finished"

\* the content of the resource of the call that is about to run, "none" when
\* the resource is not stored
ContentBefore(r) == IF res[r].saved THEN res[r].content ELSE "none"

\* C35: get_resource_ready applies content to its resource only when the
\* resource is not ready or ignore_existing_content is set; it then takes
\* the preloaded content when there is one, without calling scrape(), and
\* calls scrape() otherwise.  For a ready resource and without
\* ignore_existing_content it does not call scrape(), does not use the
\* preloaded content, and leaves the content of the resource as it was.
C35_ContentAppliedOnlyWhenNotReadyOrIgnored ==
    [][Answering =>
          LET r == last'.r
              before == ContentBefore(r)
              pre == last'.args.preloaded
          IN  IF before # "none" /\ ~last'.args.ignore
              THEN /\ FirstEv("scrape")' = 0
                   /\ last'.content = before
                   /\ res'[r].saved => res'[r].content = before
              ELSE IF pre # None
              THEN /\ FirstEv("scrape")' = 0
                   /\ last'.content = pre
              ELSE /\ FirstEv("scrape")' = 1
                   /\ last'.exc \/ last'.content =
                                     (IF world[r].scrape = "full" THEN "full" ELSE "none")
                   /\ world[r].scrape = "error" => (last'.exc /\ last'.content = before)]_vars

\* a call with preloaded content for a resource that was ready with scraped
\* content: no scrape, and the scraped content is still there
C35_Witness ==
    /\ Answered
    /\ ~last.fresh
    /\ last.args.preloaded = "pre"
    /\ ~last.args.ignore
    /\ FirstEv("scrape") = 0
    /\ last.content = "full"
    /\ res[last.r].saved
    /\ res[last.r].content = "full"
    /\ ~last.exc

(***************************************************************************)
(* Properties of the result list of query_index                            *)
(***************************************************************************)

\* the items reachable from the set S of items through dupe_to
RECURSIVE ReachableDupes(_)
ReachableDupes(S) ==
    LET more == S \cup UNION {Range(qout.dupe_to[y]) : y \in S}
    IN  IF more = S THEN S ELSE ReachableDupes(more)

\* what the caller can reach: the returned items and their dupe_to lists
Shown == ReachableDupes(Range(qout.items))

\* the places where item x appears: positions of the returned list, and
\* positions of the dupe_to lists of the items the caller can reach
Places(x) ==
    {<<0, n>> : n \in {m \in DOMAIN qout.items : qout.items[m] = x}}
    \cup UNION {{<<y, n>> : n \in {m \in DOMAIN qout.dupe_to[y] : qout.dupe_to[y][m] = x}} :
                y \in Shown}

\* C36: query_index loses and duplicates no result: every item of the index
\* response appears exactly once in the returned list and the dupe_to lists
\* reachable from it, nothing else appears there, and the returned list
\* keeps the order of the index response.
C36_NoResultLostOrDuplicated ==
    (qpc = "returned" /\ qout.queried) =>
        /\ \A x \in Range(qin.r) : Cardinality(Places(x)) = 1
        /\ \A x \in IndexCatalog \ Range(qin.r) : Places(x) = {}
        /\ \A a, b \in DOMAIN qout.items :
              a < b => IndexOf(qin.r, qout.items[a]) < IndexOf(qin.r, qout.items[b])

\* the show was emitted with a season folded into it, and was then removed
\* and attached to another season: the caller reaches the folded season
\* through the show
C36_Witness ==
    /\ qpc = "returned"
    /\ qout.queried
    /\ qin.r = <<5, 8, 6>>
    /\ qout.items = <<6>>
    /\ qout.dupe_to[6] = <<5>>
    /\ qout.dupe_to[5] = <<8>>
    /\ Shown = {5, 6, 8}

(***************************************************************************)
(* Properties of the re-runs and of the end of the crawl                   *)
(***************************************************************************)

\* C39 as stated: the crawl jobs that follow one call of get_resource_ready
\* with auto_link come to an end: the "crawl" queue is eventually empty and
\* stays empty.
C39_CrawlQueueEventuallyEmpty == <>[](crawlq = <<>>)

\* the crawl job of a resource is run a second time in this step, right
\* after its first run
CrawlRepeats == rpc = "returned" /\ last.op = "crawl" /\ rpc' = "recrawled"

\* the Items, the Item of every resource and the primary lookup id of every
\* Item are the same before and after the step
SameEndState ==
    /\ Len(itemdb') = Len(itemdb)
    /\ \A x \in ResIds : res'[x].item = res[x].item
    /\ \A i \in DOMAIN itemdb : PrimaryId(itemdb', i) = PrimaryId(itemdb, i)

\* C34 as stated: a second run of crawl_related_resources_task for the same
\* resource, after the first run and with the sites serving the same
\* content, ends in the state the first run ended in: the same Items, the
\* same Item for every resource, the same primary lookup id for every Item.
C34_SecondCrawlSameEndState == [][CrawlRepeats => SameEndState]_vars

\* the pages the call that returns in this step resolves directly: its own
\* page and the pages its required descriptors name by url
DirectPages ==
    {last'.r} \cup
    (IF last'.content = "full"
     THEN {world[last'.r].required[n].url : n \in DOMAIN world[last'.r].required} \cap ResIds
     ELSE {})

\* C40: the recursion through required resources is one level deep: a call
\* of get_resource_ready touches its own resource and the resources its
\* required descriptors name, and nothing else, whatever links those
\* resources declare: their required resources are not resolved, and the
\* only crawl job the call can enqueue is the one of its own resource.
C40_RequiredOneLevelDeep ==
    [][Answering =>
          /\ \A x \in ResIds \ DirectPages : res'[x] = res[x]
          /\ \A n \in DOMAIN last'.log :
                /\ last'.log[n].r \in DirectPages \cup {NoSiteUrl}
                /\ last'.log[n].e = "enqueue_crawl" => last'.log[n].r = last'.r
                /\ last'.log[n].e = "required" => last'.log[n].r # last'.r
          /\ crawlq' \in {crawlq, Append(crawlq, last'.r)}
          /\ Len(itemdb') - Len(itemdb) <= Cardinality(DirectPages)]_vars

\* A requires B, and B declares a required resource C and a related
\* resource A: the call for A made B ready with an Item, left C alone and
\* enqueued no job
C40_Witness ==
    /\ Answered
    /\ ~last.exc
    /\ last.r = "A"
    /\ last.args.auto_link
    /\ world["A"].required = <<Desc("B", None, None, None)>>
    /\ world["B"].required = <<Desc("C", None, None, None)>>
    /\ world["B"].related # <<>>
    /\ res["B"].saved /\ res["B"].content = "full" /\ res["B"].item # 0
    /\ ~res["C"].saved
    /\ crawlq = <<>>
    /\ Len(RequiredEvents) = 1

====
